---- MODULE Spec2Model ----
(***************************************************************************)
(* EDUCORE school-administration backend: the grading module.              *)
(*                                                                         *)
(* The grade computation of GradingService runs on JavaScript numbers,     *)
(* i.e. IEEE-754 binary64.  Its results at rounding ties depend on the     *)
(* representation error of the operands, so the arithmetic is modelled     *)
(* bit-exactly: a double is a 53-bit significand held as a natural number  *)
(* in limbs of 15 bits, with a binary exponent, and every operation is the *)
(* exact result rounded to nearest, ties to even.                          *)
(***************************************************************************)
EXTENDS Integers, Sequences, FiniteSets, TLC

(***************************************************************************)
(* Natural numbers of arbitrary size: little-endian sequences of limbs     *)
(* below Base, without leading zero limbs; zero is the empty sequence.     *)
(***************************************************************************)
Base == 32768
LimbBits == 15

RECURSIVE Pow2(_)
Pow2(n) == IF n = 0 THEN 1 ELSE 2 * Pow2(n - 1)

RECURSIVE BTrim(_)
BTrim(a) ==
  IF a = <<>> THEN <<>>
  ELSE IF a[Len(a)] = 0 THEN BTrim(SubSeq(a, 1, Len(a) - 1)) ELSE a

RECURSIVE BFromInt(_)
BFromInt(n) == IF n = 0 THEN <<>> ELSE <<n % Base>> \o BFromInt(n \div Base)

RECURSIVE BToInt(_)
BToInt(a) == IF a = <<>> THEN 0 ELSE Head(a) + Base * BToInt(Tail(a))

RECURSIVE BAddC(_, _, _)
BAddC(a, b, c) ==
  IF a = <<>> /\ b = <<>> THEN (IF c = 0 THEN <<>> ELSE <<c>>)
  ELSE LET x == (IF a = <<>> THEN 0 ELSE Head(a))
                + (IF b = <<>> THEN 0 ELSE Head(b)) + c
       IN  <<x % Base>> \o BAddC(IF a = <<>> THEN <<>> ELSE Tail(a),
                                 IF b = <<>> THEN <<>> ELSE Tail(b),
                                 x \div Base)

BAdd(a, b) == BAddC(a, b, 0)

\* a - b - c for a >= b + c
RECURSIVE BSubC(_, _, _)
BSubC(a, b, c) ==
  IF a = <<>> THEN <<>>
  ELSE LET x == Head(a) - (IF b = <<>> THEN 0 ELSE Head(b)) - c
       IN  <<IF x < 0 THEN x + Base ELSE x>>
             \o BSubC(Tail(a), IF b = <<>> THEN <<>> ELSE Tail(b),
                      IF x < 0 THEN 1 ELSE 0)

BSub(a, b) == BTrim(BSubC(a, b, 0))

\* -1, 0, 1 as a < b, a = b, a > b
RECURSIVE BCmpTop(_, _, _)
BCmpTop(a, b, i) ==
  IF i = 0 THEN 0
  ELSE IF a[i] < b[i] THEN -1
  ELSE IF a[i] > b[i] THEN 1
  ELSE BCmpTop(a, b, i - 1)

BCmp(a, b) ==
  IF Len(a) < Len(b) THEN -1
  ELSE IF Len(a) > Len(b) THEN 1
  ELSE BCmpTop(a, b, Len(a))

\* a * k + c for a limb-sized k
RECURSIVE BMulS(_, _, _)
BMulS(a, k, c) ==
  IF a = <<>> THEN (IF c = 0 THEN <<>> ELSE <<c>>)
  ELSE LET x == Head(a) * k + c
       IN  <<x % Base>> \o BMulS(Tail(a), k, x \div Base)

RECURSIVE BMulR(_, _)
BMulR(a, b) ==
  IF b = <<>> THEN <<>>
  ELSE BAdd(BMulS(a, Head(b), 0), <<0>> \o BMulR(a, Tail(b)))

BMul(a, b) == BTrim(BMulR(a, b))

RECURSIVE Zeros(_)
Zeros(n) == IF n = 0 THEN <<>> ELSE <<0>> \o Zeros(n - 1)

\* a * 2^n
BShl(a, n) ==
  IF a = <<>> THEN <<>>
  ELSE Zeros(n \div LimbBits) \o BMulS(a, Pow2(n % LimbBits), 0)

\* quotient and remainder of a by a limb-sized k, from the top limb down
RECURSIVE BDivSR(_, _, _, _)
BDivSR(a, k, i, r) ==
  IF i = 0 THEN [q |-> <<>>, r |-> r]
  ELSE LET x    == r * Base + a[i]
           rest == BDivSR(a, k, i - 1, x % k)
       IN  [q |-> rest.q \o <<x \div k>>, r |-> rest.r]

BDivS(a, k) ==
  LET d == BDivSR(a, k, Len(a), 0) IN [q |-> BTrim(d.q), r |-> d.r]

\* floor(a / 2^n)
BShr(a, n) ==
  IF n \div LimbBits >= Len(a) THEN <<>>
  ELSE BDivS(SubSeq(a, n \div LimbBits + 1, Len(a)), Pow2(n % LimbBits)).q

RECURSIVE IntBits(_)
IntBits(n) == IF n = 0 THEN 0 ELSE 1 + IntBits(n \div 2)

BBits(a) ==
  IF a = <<>> THEN 0 ELSE LimbBits * (Len(a) - 1) + IntBits(a[Len(a)])

BOdd(a) == a # <<>> /\ a[1] % 2 = 1

\* a * d for a limb-sized d
BTimes(a, d) == IF d = 0 THEN <<>> ELSE BMulS(a, d, 0)

\* The largest d <= est with d * b <= r
RECURSIVE BDigitFix(_, _, _)
BDigitFix(r, b, est) ==
  IF BCmp(BTimes(b, est), r) > 0 THEN BDigitFix(r, b, est - 1) ELSE est

\* floor(r / b) for r < b * Base and a divisor b whose top limb is at least
\* Base / 2: estimated from the top limbs, then corrected (the estimate is
\* at most 2 too large)
BDigit(r, b) ==
  LET n   == Len(b)
      top == (IF Len(r) > n THEN r[n + 1] * Base ELSE 0)
             + (IF Len(r) >= n THEN r[n] ELSE 0)
      est == top \div b[n]
  IN  BDigitFix(r, b, IF est >= Base THEN Base - 1 ELSE est)

\* Long division, n more quotient limbs: floor((r * Base^n) / b) below the
\* limbs q already found, and whether a remainder is left
RECURSIVE BDivLimbs(_, _, _, _)
BDivLimb(r0, b, n, q, d) ==
  BDivLimbs(BSub(r0, BTimes(b, d)), b, n - 1, <<d>> \o q)

BDivNext(r0, b, n, q) == BDivLimb(r0, b, n, q, BDigit(r0, b))

BDivLimbs(r, b, n, q) ==
  IF n = 0 THEN [q |-> BTrim(q), inexact |-> r # <<>>]
  ELSE BDivNext(IF r = <<>> THEN <<>> ELSE <<0>> \o r, b, n, q)

(***************************************************************************)
(* JavaScript numbers.  A finite non-negative double is m * 2^e with       *)
(* 2^52 <= m < 2^53 (or m = 0); the program never produces a negative      *)
(* number here, and the exponents stay far inside the binary64 range, so   *)
(* no sign, subnormal or overflow case is carried.                         *)
(***************************************************************************)
MantBits == 53

\* quotient limbs computed by a division: more than MantBits + 1 bits
QuotLimbs == 4

NaN == [k |-> "nan"]
Infinity == [k |-> "inf"]
FZero == [k |-> "num", m |-> <<>>, e |-> 0]

IsNum(x) == x.k = "num"
IsZero(x) == x.k = "num" /\ x.m = <<>>

\* the rounded significand m1 with its exponent; a carry out of the top bit
\* leaves 2^53, which is halved
RoundPack(m1, e) ==
  IF BBits(m1) > MantBits
    THEN [k |-> "num", m |-> BShr(m1, 1), e |-> e + 1]
    ELSE [k |-> "num", m |-> m1, e |-> e]

\* c compares the bits cut off with half a unit of the last place
RoundsUp(c, sticky, m0) == c > 0 \/ (c = 0 /\ (sticky \/ BOdd(m0)))

\* q cut by t > 0 bits to m0
RoundCut(q, sticky, e, t, m0) ==
  RoundPack(IF RoundsUp(BCmp(BSub(q, BShl(m0, t)), BShl(<<1>>, t - 1)), sticky, m0)
              THEN BAdd(m0, <<1>>)
              ELSE m0,
            e + t)

\* q # 0 of n bits
RoundBits(q, sticky, e, n) ==
  IF n <= MantBits
    THEN [k |-> "num", m |-> BShl(q, MantBits - n), e |-> e - (MantBits - n)]
    ELSE RoundCut(q, sticky, e, n - MantBits, BShr(q, n - MantBits))

\* The double nearest to (q + d) * 2^e, 0 <= d < 1, d > 0 iff sticky
\* (round to nearest, ties to even).  With sticky, q has more than
\* MantBits + 1 bits.
RoundNE(q, sticky, e) ==
  IF q = <<>> THEN FZero ELSE RoundBits(q, sticky, e, BBits(q))

\* Number of an integer n >= 0
FromInt(n) == RoundNE(BFromInt(n), FALSE, 0)

\* Number(d) of a Prisma Decimal with two fractional digits, given as the
\* count n >= 0 of hundredths: the double nearest to n / 100
RoundQuot(d, e) == RoundNE(d.q, d.r # 0, e)

FromDec(n) == RoundQuot(BDivS(BShl(BFromInt(n), 62), 100), -62)

\* the quotient of the significands an by bn, both shifted so that the top
\* limb of bn is full; q0 is its integer part (0 or 1)
RoundDiv(d, e) == RoundNE(d.q, d.inexact, e)

DivFrom(an, bn, q0, e) ==
  RoundDiv(BDivLimbs(BSub(an, BTimes(bn, q0)), bn, QuotLimbs, <<q0>>), e)

DivShifted(an, bn, e) == DivFrom(an, bn, IF BCmp(an, bn) >= 0 THEN 1 ELSE 0, e)

DivBy(am, bm, s, e) == DivShifted(BShl(am, s), BShl(bm, s), e)

\* a / b
FDiv(a, b) ==
  IF a.k = "nan" \/ b.k = "nan" THEN NaN
  ELSE IF a.k = "inf" THEN (IF b.k = "inf" THEN NaN ELSE Infinity)
  ELSE IF b.k = "inf" THEN FZero
  ELSE IF IsZero(b) THEN (IF IsZero(a) THEN NaN ELSE Infinity)
  ELSE IF IsZero(a) THEN FZero
  ELSE DivBy(a.m, b.m, LimbBits * Len(b.m) - BBits(b.m),
             a.e - b.e - LimbBits * QuotLimbs)

\* a * b
FMul(a, b) ==
  IF a.k = "nan" \/ b.k = "nan" THEN NaN
  ELSE IF a.k = "inf" \/ b.k = "inf"
    THEN (IF IsZero(a) \/ IsZero(b) THEN NaN ELSE Infinity)
  ELSE IF IsZero(a) \/ IsZero(b) THEN FZero
  ELSE RoundNE(BMul(a.m, b.m), FALSE, a.e + b.e)

\* a + b
FAdd(a, b) ==
  IF a.k = "nan" \/ b.k = "nan" THEN NaN
  ELSE IF a.k = "inf" \/ b.k = "inf" THEN Infinity
  ELSE IF IsZero(a) THEN b
  ELSE IF IsZero(b) THEN a
  ELSE LET e == IF a.e < b.e THEN a.e ELSE b.e
       IN  RoundNE(BAdd(BShl(a.m, a.e - e), BShl(b.m, b.e - e)), FALSE, e)

\* a >= b; every comparison with NaN is false
FGe(a, b) ==
  IF a.k = "nan" \/ b.k = "nan" THEN FALSE
  ELSE IF a.k = "inf" THEN TRUE
  ELSE IF b.k = "inf" THEN FALSE
  ELSE IF IsZero(b) THEN TRUE
  ELSE IF IsZero(a) THEN FALSE
  ELSE IF a.e # b.e THEN a.e > b.e
  ELSE BCmp(a.m, b.m) >= 0

\* a > b
FGt(a, b) == a.k # "nan" /\ b.k # "nan" /\ ~FGe(b, a)

\* Math.round(x): the integer nearest to x, ties upward; NaN and Infinity
\* are returned unchanged
MathRound(x) ==
  IF ~IsNum(x) \/ IsZero(x) THEN x
  ELSE IF x.e >= 0 THEN x
  ELSE IF -x.e > MantBits + 1 THEN FZero
  ELSE RoundNE(BShr(BAdd(BShl(x.m, 1), BShl(<<1>>, -x.e)), 1 - x.e), FALSE, 0)

(***************************************************************************)
(* The database.  Decimal columns hold two fractional digits and are kept  *)
(* as counts of hundredths; the numbers of a request body are decimals     *)
(* with three fractional digits, kept as counts of thousandths, so that a  *)
(* request can carry a value the column cannot hold exactly.               *)
(***************************************************************************)

\* ScoreType, in the order of the enum's declaration (the order PostgreSQL
\* sorts its values in)
ScoreType == <<"HOMEWORK", "QUIZ", "MIDTERM", "FINAL", "PROJECT", "PARTICIPATION">>

ScoreTypeRank(t) == CHOOSE i \in 1..Len(ScoreType) : ScoreType[i] = t

\* Student rows (with the lastName of the user each belongs to), Subject
\* rows and ClassSubject rows: written by other modules, fixed here
Students == {"s1", "s2", "s3"}

lastName == [s \in Students |-> "Test"]

Subjects == {"math", "sci"}

ClassSubjects == {"cs1"}

classOf == [c \in ClassSubjects |-> "1A"]

semesterOf == [c \in ClassSubjects |-> "sem1"]

\* the user of the access token (req.user.userId)
Users == {"teacher"}

\* Class rows with the grade of each, and AcademicYear rows
\* the accounts of the User table, with the role of each
Accounts == {"admin", "teacher", "clerk", "pupil1", "parent2"}

roleOf ==
  [u \in Accounts |->
     IF u = "admin" THEN "ADMIN" ELSE IF u = "teacher" THEN "TEACHER"
     ELSE IF u = "clerk" THEN "ACCOUNTANT"
     ELSE IF u = "pupil1" THEN "STUDENT" ELSE "PARENT"]

\* Student.userId and StudentParent: the student record of the account of a
\* pupil, and the children linked to the account of a parent
studentsOf ==
  [u \in Accounts |->
     IF u = "pupil1" THEN {"s1"} ELSE IF u = "parent2" THEN {"s2"} ELSE {}]

\* the rows of the AcademicYear table before the first request
YearsAtStart == {[id |-> "y1", isCurrent |-> TRUE]}

Classes == {"1A", "1B"}

gradeOf == [c \in Classes |-> "g1"]

AcademicYears == {"y1"}

\* Class.capacity when createClass is given none
DefaultCapacity == 30

\* A value written to a DECIMAL(p,2) column: PostgreSQL rounds it to two
\* fractional digits, half away from zero (thousandths to hundredths)
Decimal2(n) == (n + 5) \div 10

\* ... and refuses it (numeric field overflow) when it then needs more than
\* p - 2 integer digits: score and maxScore are DECIMAL(5,2), weight is
\* DECIMAL(3,2)
Overflows(h, intDigits) == h >= 100 * (10 ^ intDigits)

(***************************************************************************)
(* grading.validation.ts.  An optional field of a body is <<>> when absent *)
(* and <<v>> when present.                                                 *)
(***************************************************************************)
createScoreSchema(body) ==
  /\ \E i \in 1..Len(ScoreType) : ScoreType[i] = body.scoreType
  /\ body.score >= 0
  /\ body.maxScore > 0
  /\ body.weight >= 0 /\ body.weight <= 1000

updateScoreSchema(body) ==
  /\ body.score # <<>> => body.score[1] >= 0
  /\ body.maxScore # <<>> => body.maxScore[1] > 0
  /\ body.weight # <<>> => (body.weight[1] >= 0 /\ body.weight[1] <= 1000)

bulkCreateScoresSchema(body) ==
  /\ \E i \in 1..Len(ScoreType) : ScoreType[i] = body.scoreType
  /\ body.maxScore > 0
  /\ body.weight >= 0 /\ body.weight <= 1000
  /\ \A i \in 1..Len(body.scores) : body.scores[i].score >= 0

(***************************************************************************)
(* GradingService: the two grade views, on the rows their query returned   *)
(* and in the order it returned them.                                      *)
(***************************************************************************)

\* (every key taken for the key of the first group)
FirstGroupIndex(groups, key) == IF groups = <<>> THEN 0 ELSE 1

\* the position of the group of this key among the groups, 0 if none
\* (subjectGrades[subjectId], studentScores[studentId])
GroupIndex(groups, key) ==
  IF \E i \in 1..Len(groups) : groups[i].key = key
    THEN CHOOSE i \in 1..Len(groups) : groups[i].key = key
    ELSE 0

\* (scoreNum / maxScoreNum) * 100
Percentage(score) ==
  FMul(FDiv(FromDec(score.score), FromDec(score.maxScore)), FromInt(100))

\* Math.round(x * 100) / 100
Round2(x) == FDiv(MathRound(FMul(x, FromInt(100))), FromInt(100))

\* getStudentGrades: the group a subject gets at its first score
NewSubjectGroup(score) ==
  [key                |-> score.subjectId,
   subject            |-> score.subjectId,
   class              |-> classOf[score.classSubjectId],
   semester           |-> semesterOf[score.classSubjectId],
   scores             |-> <<>>,
   totalWeightedScore |-> FZero,
   totalWeight        |-> FZero]

\* getStudentGrades: if (!subjectGrades[subjectId]) subjectGrades[subjectId] = ...
WithSubjectGroup(subjectGrades, score) ==
  IF GroupIndex(subjectGrades, score.subjectId) = 0
    THEN Append(subjectGrades, NewSubjectGroup(score))
    ELSE subjectGrades

\* getStudentGrades: the entry pushed to the group's scores, and the two sums
PushReportScore(subjectData, score, weightNum, percentage, weightedScore) ==
  [subjectData EXCEPT
     !.scores = Append(@, [id            |-> score.id,
                           scoreType     |-> score.scoreType,
                           score         |-> score.score,
                           maxScore      |-> score.maxScore,
                           weight        |-> score.weight,
                           percentage    |-> Round2(percentage),
                           weightedScore |-> Round2(weightedScore)]),
     !.totalWeightedScore = FAdd(@, weightedScore),
     !.totalWeight = FAdd(@, weightNum)]

\* (the contribution computed from the percentage as it is displayed)
RoundedReportScore(subjectData, score, weightNum, percentage) ==
  PushReportScore(subjectData, score, weightNum, percentage,
                  FMul(Round2(percentage), weightNum))

\* getStudentGrades: const weightedScore = percentage * weightNum
ReportScore(subjectData, score, weightNum, percentage) ==
  PushReportScore(subjectData, score, weightNum, percentage,
                  FMul(percentage, weightNum))

\* getStudentGrades: the body of scores.forEach(...), on the groups that
\* hold the score's group at position g
ReportStep(groups, g, score) ==
  [groups EXCEPT ![g] = ReportScore(@, score, FromDec(score.weight), Percentage(score))]

\* getStudentGrades: scores.forEach(...)
RECURSIVE GroupBySubject(_, _)
GroupBySubject(rows, subjectGrades) ==
  IF rows = <<>> THEN subjectGrades
  ELSE GroupBySubject(Tail(rows),
         ReportStep(WithSubjectGroup(subjectGrades, Head(rows)),
                    GroupIndex(WithSubjectGroup(subjectGrades, Head(rows)),
                               Head(rows).subjectId),
                    Head(rows)))

\* getStudentGrades: the letter of a final grade
ReportLetterGrade(finalGrade) ==
  IF FGe(finalGrade, FromInt(90)) THEN "A"
  ELSE IF FGe(finalGrade, FromInt(80)) THEN "B"
  ELSE IF FGe(finalGrade, FromInt(70)) THEN "C"
  ELSE IF FGe(finalGrade, FromInt(60)) THEN "D"
  ELSE "F"

\* getStudentGrades: the object returned for a group
SubjectSummary(subjectData, finalGrade) ==
  [subject     |-> subjectData.subject,
   class       |-> subjectData.class,
   semester    |-> subjectData.semester,
   scores      |-> subjectData.scores,
   finalGrade  |-> finalGrade,
   letterGrade |-> ReportLetterGrade(finalGrade),
   totalWeight |-> subjectData.totalWeight]

\* (the division made without the test of totalWeight)
UnguardedSubjectResult(subjectData) ==
  SubjectSummary(subjectData,
    Round2(FDiv(subjectData.totalWeightedScore, subjectData.totalWeight)))

\* getStudentGrades: Object.values(subjectGrades).map(...)
SubjectResult(subjectData) ==
  SubjectSummary(subjectData,
    IF FGt(subjectData.totalWeight, FZero)
      THEN Round2(FDiv(subjectData.totalWeightedScore, subjectData.totalWeight))
      ELSE FZero)

\* getStudentGrades, from the rows of the student's scores
MapSubjectResults(subjectGrades) ==
  [i \in 1..Len(subjectGrades) |-> SubjectResult(subjectGrades[i])]

StudentGrades(rows) == MapSubjectResults(GroupBySubject(rows, <<>>))

\* getClassSubjectScores: the group of an enrolled student
NewStudentGroup(studentId) ==
  [key                |-> studentId,
   student            |-> studentId,
   scores             |-> <<>>,
   totalWeightedScore |-> FZero,
   totalWeight        |-> FZero]

\* getClassSubjectScores: studentScores[studentId] = {...}
SetStudentGroup(studentScores, g, studentId) ==
  IF g = 0 THEN Append(studentScores, NewStudentGroup(studentId))
  ELSE [studentScores EXCEPT ![g] = NewStudentGroup(studentId)]

\* (the groups left to the scores alone, as in getStudentGrades)
GroupsOfScoresOnly(enrolled, studentScores) == studentScores

\* getClassSubjectScores: classSubject.class.enrollments.forEach(...)
RECURSIVE GroupsOfEnrollments(_, _)
GroupsOfEnrollments(enrolled, studentScores) ==
  IF enrolled = <<>> THEN studentScores
  ELSE GroupsOfEnrollments(Tail(enrolled),
         SetStudentGroup(studentScores,
                         GroupIndex(studentScores, Head(enrolled).studentId),
                         Head(enrolled).studentId))

\* getClassSubjectScores: the entry pushed to the group's scores, and the
\* two sums
PushBookScore(studentData, score, weightNum, percentage, weightedScore) ==
  [studentData EXCEPT
     !.scores = Append(@, [id         |-> score.id,
                           scoreType  |-> score.scoreType,
                           score      |-> score.score,
                           maxScore   |-> score.maxScore,
                           weight     |-> score.weight,
                           percentage |-> Round2(percentage)]),
     !.totalWeightedScore = FAdd(@, weightedScore),
     !.totalWeight = FAdd(@, weightNum)]

\* getClassSubjectScores: const weightedScore = percentage * weightNum
BookScore(studentData, score, weightNum, percentage) ==
  PushBookScore(studentData, score, weightNum, percentage,
                FMul(percentage, weightNum))

\* getClassSubjectScores: the body of scores.forEach(...), g the position of
\* the group of the score's student: if (studentScores[score.studentId]) ...
BookStep(studentScores, g, score) ==
  IF g = 0 THEN studentScores
  ELSE [studentScores EXCEPT
          ![g] = BookScore(@, score, FromDec(score.weight), Percentage(score))]

\* getClassSubjectScores: scores.forEach(...)
RECURSIVE GroupByStudent(_, _)
GroupByStudent(rows, studentScores) ==
  IF rows = <<>> THEN studentScores
  ELSE GroupByStudent(Tail(rows),
         BookStep(studentScores,
                  GroupIndex(studentScores, Head(rows).studentId),
                  Head(rows)))

\* getClassSubjectScores: the letter of a final grade
BookLetterGrade(finalGrade) ==
  IF FGe(finalGrade, FromInt(90)) THEN "A"
  ELSE IF FGe(finalGrade, FromInt(80)) THEN "B"
  ELSE IF FGe(finalGrade, FromInt(70)) THEN "C"
  ELSE IF FGe(finalGrade, FromInt(60)) THEN "D"
  ELSE "F"

\* getClassSubjectScores: the object returned for a group
StudentSummary(studentData, finalGrade) ==
  [student     |-> studentData.student,
   scores      |-> studentData.scores,
   finalGrade  |-> finalGrade,
   letterGrade |-> BookLetterGrade(finalGrade)]

\* getClassSubjectScores: Object.values(studentScores).map(...)
StudentResult(studentData) ==
  StudentSummary(studentData,
    IF FGt(studentData.totalWeight, FZero)
      THEN Round2(FDiv(studentData.totalWeightedScore, studentData.totalWeight))
      ELSE FZero)

MapStudentResults(studentScores) ==
  [i \in 1..Len(studentScores) |-> StudentResult(studentScores[i])]

\* getClassSubjectScores, from the rows of the class's ACTIVE enrollments
\* and the rows of the class subject's scores
ClassSubjectScores(enrolled, rows) ==
  MapStudentResults(GroupByStudent(rows, GroupsOfEnrollments(enrolled, <<>>)))

(***************************************************************************)
(* The state: the Score and AuditLog tables, the id the next Score row     *)
(* gets, and the last request with the response it got; the Enrollment    *)
(* and Transaction tables and the capacity column of the Class table; the  *)
(* requests in flight, each with the values it holds between two awaits;   *)
(* whether the database accepts a write to the AuditLog table; the status  *)
(* column of the User table, the access tokens issued so far, and the      *)
(* AcademicYear table.  instants is a history: the Enrollment and Score    *)
(* tables as they were at each instant since the gradebook request in      *)
(* flight arrived.                                                         *)
(***************************************************************************)
VARIABLES scores, auditLogs, nextId, res,
          enrollments, capacity, transactions, calls, auditWrite,
          users, tokens, academicYears, instants

vars == <<scores, auditLogs, nextId, res,
          enrollments, capacity, transactions, calls, auditWrite,
          users, tokens, academicYears, instants>>

\* what the grading handlers, run one at a time, leave alone
others == <<enrollments, capacity, transactions, calls, auditWrite,
            users, tokens, academicYears, instants>>

\* bounds of the exploration
MaxScores == 2
MaxAudit == 2
MaxLogins == 2

\* Enrollment rows (written by the students module, fixed here): all three
\* students were enrolled in class 1A, and s3 has withdrawn
Enrollments ==
  { [id |-> 1, studentId |-> "s1", classId |-> "1A", academicYearId |-> "y1",
     status |-> "ACTIVE"],
    [id |-> 2, studentId |-> "s2", classId |-> "1A", academicYearId |-> "y1",
     status |-> "ACTIVE"],
    [id |-> 3, studentId |-> "s3", classId |-> "1A", academicYearId |-> "y1",
     status |-> "WITHDRAWN"] }

\* the requests that can be in flight at once
Procs == {1, 2}

Idle == [p \in Procs |-> [pc |-> "idle"]]

\* the lastNames of the users, ascending
Collation == <<"Test">>

NameRank(name) == CHOOSE i \in 1..Len(Collation) : Collation[i] = name

\* the orders a query without orderBy can return a set of rows in
Perms(S) ==
  {f \in [1..Cardinality(S) -> S] :
     \A i, j \in 1..Cardinality(S) : i # j => f[i] # f[j]}

\* orderBy [{student: {user: {lastName: 'asc'}}}, {scoreType: 'asc'}]
ScoreOrder(S) ==
  {f \in Perms(S) :
     \A i \in 1..(Cardinality(S) - 1) :
       \/ NameRank(lastName[f[i].studentId]) < NameRank(lastName[f[i + 1].studentId])
       \/ /\ lastName[f[i].studentId] = lastName[f[i + 1].studentId]
          /\ ScoreTypeRank(f[i].scoreType) <= ScoreTypeRank(f[i + 1].scoreType)}

\* response.util: successResponse and errorResponse
successResponse(req, data, status) ==
  [req |-> req, status |-> status, code |-> "OK", data |-> data]

errorResponse(req, code, message, status) ==
  [req |-> req, status |-> status, code |-> code, data |-> message]

NoResponse == [req |-> [op |-> "none"], status |-> 0, code |-> "NONE", data |-> ""]

Init ==
  /\ scores = {}
  /\ auditLogs = <<>>
  /\ nextId = 1
  /\ res = NoResponse
  /\ enrollments = Enrollments
  /\ capacity = [c \in Classes |-> DefaultCapacity]
  /\ transactions = {}
  /\ calls = Idle
  /\ auditWrite = "ok"
  /\ users = [u \in Accounts |-> "ACTIVE"]
  /\ tokens = {}
  /\ academicYears = YearsAtStart
  /\ instants = <<>>

\* the bodies of POST /scores the exploration sends (numbers in thousandths)
Body(studentId, subjectId, scoreType, score, maxScore, weight) ==
  [studentId |-> studentId, classSubjectId |-> "cs1", subjectId |-> subjectId,
   scoreType |-> scoreType, score |-> score, maxScore |-> maxScore,
   weight |-> weight]

CreateBodies ==
  { Body("s1", "math", "QUIZ", 45000, 50000, 1000),
    Body("s1", "math", "HOMEWORK", 23000, 160000, 1000),
    Body("s1", "math", "HOMEWORK", 40000, 50000, 0),
    Body("s1", "math", "QUIZ", 1000, 4, 0),
    Body("s1", "sci", "QUIZ", 30000, 40000, 500),
    Body("s2", "sci", "QUIZ", 80000, 100000, 300),
    Body("s2", "sci", "MIDTERM", 70000, 100000, 700),
    Body("s3", "math", "QUIZ", 30000, 50000, 1000),
    Body("s1", "math", "QUIZ", -1000, 50000, 1000),
    Body("s1", "math", "QUIZ", 45000, 0, 1000),
    Body("s1", "math", "QUIZ", 45000, 50000, 1001),
    Body("s1", "math", "QUIZ", 1000000, 50000, 1000),
    Body("s0", "math", "QUIZ", 45000, 50000, 1000),
    Body("s1", "art", "QUIZ", 45000, 50000, 1000),
    [Body("s1", "math", "QUIZ", 45000, 50000, 1000) EXCEPT !.classSubjectId = "cs0"] }

\* the writes to the Score table the audit log has an entry of: the
\* exploration makes no more than MaxAudit of them
IsScoreEntry(entry) == entry.entityType = "Score"

ScoreWrites == Len(SelectSeq(auditLogs, IsScoreEntry))

\* the message of the error a write to the AuditLog table fails with
AuditError == "audit log write failed"

\* GradingController.createScore with GradingService.createScore
createScore(userId, body) ==
  LET req   == [op |-> "createScore", body |-> body]
      score == [id             |-> nextId,
                studentId      |-> body.studentId,
                classSubjectId |-> body.classSubjectId,
                subjectId      |-> body.subjectId,
                scoreType      |-> body.scoreType,
                score          |-> Decimal2(body.score),
                maxScore       |-> Decimal2(body.maxScore),
                weight         |-> Decimal2(body.weight)]
      fail(code, message, status) ==
        /\ res' = errorResponse(req, code, message, status)
        /\ UNCHANGED <<scores, auditLogs, nextId>>
  IN  IF ~createScoreSchema(body)
        THEN fail("VALIDATION_ERROR", "Invalid input", 422)
      ELSE IF body.studentId \notin Students
        THEN fail("CREATE_SCORE_ERROR", "Student not found", 400)
      ELSE IF body.classSubjectId \notin ClassSubjects
        THEN fail("CREATE_SCORE_ERROR", "Class subject not found", 400)
      ELSE IF body.subjectId \notin Subjects
        THEN fail("CREATE_SCORE_ERROR", "Subject not found", 400)
      ELSE IF \/ Overflows(score.score, 3) \/ Overflows(score.maxScore, 3)
              \/ Overflows(score.weight, 1)
        THEN fail("CREATE_SCORE_ERROR", "numeric field overflow", 400)
      ELSE
        /\ Cardinality(scores) < MaxScores
        /\ ScoreWrites < MaxAudit
        /\ nextId <= MaxAudit
        /\ scores' = scores \cup {score}
        /\ nextId' = nextId + 1
        /\ IF auditWrite = "error"
             THEN /\ res' = errorResponse(req, "CREATE_SCORE_ERROR", AuditError, 400)
                  /\ UNCHANGED auditLogs
             ELSE /\ auditLogs' = Append(auditLogs,
                       [userId |-> userId, action |-> "CREATE",
                        entityType |-> "Score", entityId |-> <<score.id>>])
                  /\ res' = successResponse(req, score, 201)

CreateScore ==
  /\ \E userId \in Users, body \in CreateBodies : createScore(userId, body)
  /\ UNCHANGED others

\* the bodies of POST /scores/bulk the exploration sends
BulkBody(subjectId, maxScore, weight, list) ==
  [classSubjectId |-> "cs1", subjectId |-> subjectId, scoreType |-> "QUIZ",
   maxScore |-> maxScore, weight |-> weight, scores |-> list]

BulkBodies ==
  { BulkBody("math", 100000, 500, <<[studentId |-> "s1", score |-> 90000],
                                    [studentId |-> "s2", score |-> 60000]>>),
    BulkBody("math", 100000, 500, <<>>),
    BulkBody("math", 100000, 500, <<[studentId |-> "s1", score |-> 90000],
                                    [studentId |-> "s2", score |-> -1000]>>),
    BulkBody("math", 0, 500, <<[studentId |-> "s1", score |-> 90000]>>),
    BulkBody("math", 100000, 500, <<[studentId |-> "s1", score |-> 90000],
                                    [studentId |-> "s1", score |-> 60000]>>),
    BulkBody("math", 100000, 500, <<[studentId |-> "s1", score |-> 90000],
                                    [studentId |-> "s0", score |-> 60000]>>),
    BulkBody("math", 100000, 500, <<[studentId |-> "s1", score |-> 90000],
                                    [studentId |-> "s2", score |-> 1000000]>>),
    BulkBody("art", 100000, 500, <<[studentId |-> "s1", score |-> 90000]>>),
    [BulkBody("math", 100000, 500, <<>>) EXCEPT !.classSubjectId = "cs0"] }

\* (writes made one by one, each kept whatever becomes of the next)
WithoutTransaction(old, new, committed) == new

\* prisma.$transaction: what a table holds after the callback, by whether
\* every write of the callback succeeded
InTransaction(old, new, committed) == IF committed THEN new ELSE old

\* GradingController.bulkCreateScores with GradingService.bulkCreateScores
bulkCreateScores(userId, body) ==
  LET req        == [op |-> "bulkCreateScores", body |-> body]
      count      == Len(body.scores)
      studentIds == [i \in 1..count |-> body.scores[i].studentId]
      \* student.findMany({where: {id: {in: studentIds}}})
      students   == {s \in Students : \E i \in 1..count : studentIds[i] = s}
      created    == [i \in 1..count |->
                       [id             |-> nextId + i - 1,
                        studentId      |-> body.scores[i].studentId,
                        classSubjectId |-> body.classSubjectId,
                        subjectId      |-> body.subjectId,
                        scoreType      |-> body.scoreType,
                        score          |-> Decimal2(body.scores[i].score),
                        maxScore       |-> Decimal2(body.maxScore),
                        weight         |-> Decimal2(body.weight)]]
      fail(code, message, status) ==
        /\ res' = errorResponse(req, code, message, status)
        /\ UNCHANGED <<scores, auditLogs, nextId>>
  IN  IF ~bulkCreateScoresSchema(body)
        THEN fail("VALIDATION_ERROR", "Invalid input", 422)
      ELSE IF body.classSubjectId \notin ClassSubjects
        THEN fail("BULK_CREATE_SCORES_ERROR", "Class subject not found", 400)
      ELSE IF body.subjectId \notin Subjects
        THEN fail("BULK_CREATE_SCORES_ERROR", "Subject not found", 400)
      ELSE IF Cardinality(students) # count
        THEN fail("BULK_CREATE_SCORES_ERROR", "One or more students not found", 400)
      ELSE IF \E i \in 1..count :
                \/ Overflows(created[i].score, 3) \/ Overflows(created[i].maxScore, 3)
                \/ Overflows(created[i].weight, 1)
        THEN fail("BULK_CREATE_SCORES_ERROR", "numeric field overflow", 400)
      ELSE
        /\ Cardinality(scores) + count <= MaxScores
        /\ ScoreWrites < MaxAudit
        /\ nextId + count - 1 <= MaxAudit
        /\ scores' = InTransaction(scores, scores \cup {created[i] : i \in 1..count},
                                   auditWrite = "ok")
        /\ nextId' = InTransaction(nextId, nextId + count, auditWrite = "ok")
        /\ IF auditWrite = "error"
             THEN /\ res' = errorResponse(req, "BULK_CREATE_SCORES_ERROR",
                                          AuditError, 400)
                  /\ UNCHANGED auditLogs
             ELSE /\ auditLogs' = Append(auditLogs,
                       [userId |-> userId, action |-> "CREATE",
                        entityType |-> "Score", entityId |-> <<>>])
                  /\ res' = successResponse(req,
                              [scores |-> created, count |-> count], 201)

BulkCreateScores ==
  /\ \E userId \in Users, body \in BulkBodies : bulkCreateScores(userId, body)
  /\ UNCHANGED others

\* the bodies of PUT /scores/:id the exploration sends
UpdateBodies ==
  { [score |-> <<>>, maxScore |-> <<>>, weight |-> <<0>>],
    [score |-> <<>>, maxScore |-> <<4>>, weight |-> <<>>],
    [score |-> <<50000>>, maxScore |-> <<50000>>, weight |-> <<>>],
    [score |-> <<>>, maxScore |-> <<0>>, weight |-> <<>>],
    [score |-> <<-1000>>, maxScore |-> <<>>, weight |-> <<>>],
    [score |-> <<>>, maxScore |-> <<>>, weight |-> <<1500>>],
    [score |-> <<1000000>>, maxScore |-> <<>>, weight |-> <<>>] }

\* GradingController.updateScore with GradingService.updateScore
updateScore(userId, id, body) ==
  LET req      == [op |-> "updateScore", id |-> id, body |-> body]
      existing == {s \in scores : s.id = id}
      old      == CHOOSE s \in existing : TRUE
      score    == [old EXCEPT
                     !.score    = IF body.score = <<>> THEN @ ELSE Decimal2(body.score[1]),
                     !.maxScore = IF body.maxScore = <<>> THEN @ ELSE Decimal2(body.maxScore[1]),
                     !.weight   = IF body.weight = <<>> THEN @ ELSE Decimal2(body.weight[1])]
      fail(code, message, status) ==
        /\ res' = errorResponse(req, code, message, status)
        /\ UNCHANGED <<scores, auditLogs, nextId>>
  IN  IF ~updateScoreSchema(body)
        THEN fail("VALIDATION_ERROR", "Invalid input", 422)
      ELSE IF existing = {}
        THEN fail("UPDATE_SCORE_ERROR", "Score not found", 400)
      ELSE IF \/ Overflows(score.score, 3) \/ Overflows(score.maxScore, 3)
              \/ Overflows(score.weight, 1)
        THEN fail("UPDATE_SCORE_ERROR", "numeric field overflow", 400)
      ELSE
        /\ ScoreWrites < MaxAudit
        /\ scores' = (scores \ existing) \cup {score}
        /\ IF auditWrite = "error"
             THEN /\ res' = errorResponse(req, "UPDATE_SCORE_ERROR", AuditError, 400)
                  /\ UNCHANGED auditLogs
             ELSE /\ auditLogs' = Append(auditLogs,
                       [userId |-> userId, action |-> "UPDATE",
                        entityType |-> "Score", entityId |-> <<id>>])
                  /\ res' = successResponse(req, score, 200)
        /\ UNCHANGED nextId

UpdateScore ==
  /\ \E userId \in Users, id \in 1..nextId, body \in UpdateBodies :
       updateScore(userId, id, body)
  /\ UNCHANGED others

\* GradingController.deleteScore with GradingService.deleteScore
deleteScore(userId, id) ==
  LET req      == [op |-> "deleteScore", id |-> id]
      existing == {s \in scores : s.id = id}
  IN  IF existing = {}
        THEN /\ res' = errorResponse(req, "DELETE_SCORE_ERROR", "Score not found", 400)
             /\ UNCHANGED <<scores, auditLogs, nextId>>
      ELSE
        /\ ScoreWrites < MaxAudit
        /\ scores' = scores \ existing
        /\ IF auditWrite = "error"
             THEN /\ res' = errorResponse(req, "DELETE_SCORE_ERROR", AuditError, 400)
                  /\ UNCHANGED auditLogs
             ELSE /\ auditLogs' = Append(auditLogs,
                       [userId |-> userId, action |-> "DELETE",
                        entityType |-> "Score", entityId |-> <<id>>])
                  /\ res' = successResponse(req, "Score deleted successfully", 200)
        /\ UNCHANGED nextId

DeleteScore ==
  /\ \E userId \in Users, id \in 1..nextId : deleteScore(userId, id)
  /\ UNCHANGED others

\* (a read of a snapshot of the table taken before its newest row was
\* written)
StaleStudentRows(studentId, semesterId) ==
  {s \in scores :
     /\ s.id # nextId - 1
     /\ s.studentId = studentId
     /\ semesterId # <<>> => semesterOf[s.classSubjectId] = semesterId[1]}

\* the rows score.findMany returns for getStudentGrades, in any order
StudentRows(studentId, semesterId) ==
  {s \in scores :
     /\ s.studentId = studentId
     /\ semesterId # <<>> => semesterOf[s.classSubjectId] = semesterId[1]}

\* GradingController.getStudentGrades with GradingService.getStudentGrades
getStudentGrades(studentId, semesterId) ==
  LET req == [op |-> "getStudentGrades", studentId |-> studentId,
              semesterId |-> semesterId]
  IN  /\ IF studentId \notin Students
           THEN res' = errorResponse(req, "GET_STUDENT_GRADES_ERROR",
                                     "Student not found", 400)
           ELSE \E rows \in Perms(StudentRows(studentId, semesterId)) :
                  res' = successResponse(req, StudentGrades(rows), 200)
      /\ UNCHANGED <<scores, auditLogs, nextId>>

GetStudentGrades ==
  /\ \E studentId \in Students \cup {"s0"},
        semesterId \in {<<>>, <<"sem1">>, <<"sem2">>} :
       getStudentGrades(studentId, semesterId)
  /\ UNCHANGED others

\* the ACTIVE enrollments of the class of a class subject, in any order
ActiveEnrollments(classSubjectId) ==
  {n \in enrollments : n.classId = classOf[classSubjectId] /\ n.status = "ACTIVE"}

\* the rows score.findMany returns for getClassSubjectScores
ClassSubjectRows(classSubjectId) == {s \in scores : s.classSubjectId = classSubjectId}

\* GradingController.getClassSubjectScores with
\* GradingService.getClassSubjectScores
getClassSubjectScores(classSubjectId) ==
  LET req == [op |-> "getClassSubjectScores", classSubjectId |-> classSubjectId]
  IN  /\ IF classSubjectId \notin ClassSubjects
           THEN res' = errorResponse(req, "GET_CLASS_SUBJECT_SCORES_ERROR",
                                     "Class subject not found", 400)
           ELSE \E enrolled \in Perms(ActiveEnrollments(classSubjectId)),
                   rows \in ScoreOrder(ClassSubjectRows(classSubjectId)) :
                  res' = successResponse(req,
                           [classSubject |-> classSubjectId,
                            students     |-> ClassSubjectScores(enrolled, rows)], 200)
      /\ UNCHANGED <<scores, auditLogs, nextId>>

GetClassSubjectScores ==
  /\ \E classSubjectId \in ClassSubjects \cup {"cs0"} :
       getClassSubjectScores(classSubjectId)
  /\ UNCHANGED others

Next ==
  \/ CreateScore
  \/ BulkCreateScores
  \/ UpdateScore
  \/ DeleteScore
  \/ GetStudentGrades
  \/ GetClassSubjectScores

Spec == Init /\ [][Next]_vars

(***************************************************************************)
(* The grade views on stores of one group: the Score table starts with     *)
(* GroupSize rows of one student in one subject, created one after the     *)
(* other, and only the views run.                                          *)
(***************************************************************************)
GroupSize == 3

\* stored rows (numbers in hundredths)
GroupRows ==
  << [scoreType |-> "PROJECT",  score |-> 1800, maxScore |-> 5000, weight |-> 10],
     [scoreType |-> "QUIZ",     score |-> 2100, maxScore |-> 8000, weight |-> 30],
     [scoreType |-> "PROJECT",  score |-> 1000, maxScore |-> 1000, weight |-> 60],
     [scoreType |-> "HOMEWORK", score |-> 4000, maxScore |-> 5000, weight |-> 0],
     [scoreType |-> "QUIZ",     score |-> 400,  maxScore |-> 900,  weight |-> 100] >>

\* the rows of GroupRows at the positions of S, with ids 1, 2, ... in that order
GroupStore(S) ==
  { [id             |-> Cardinality({j \in S : j <= i}),
     studentId      |-> "s1",
     classSubjectId |-> "cs1",
     subjectId      |-> "math",
     scoreType      |-> GroupRows[i].scoreType,
     score          |-> GroupRows[i].score,
     maxScore       |-> GroupRows[i].maxScore,
     weight         |-> GroupRows[i].weight] : i \in S }

InitGroups ==
  /\ \E S \in SUBSET (1..Len(GroupRows)) :
       /\ Cardinality(S) = GroupSize
       /\ scores = GroupStore(S)
  /\ auditLogs = [i \in 1..GroupSize |->
                    [userId |-> "teacher", action |-> "CREATE",
                     entityType |-> "Score", entityId |-> <<i>>]]
  /\ nextId = GroupSize + 1
  /\ res = NoResponse
  /\ enrollments = Enrollments
  /\ capacity = [c \in Classes |-> DefaultCapacity]
  /\ transactions = {}
  /\ calls = Idle
  /\ auditWrite = "ok"
  /\ users = [u \in Accounts |-> "ACTIVE"]
  /\ tokens = {}
  /\ academicYears = YearsAtStart
  /\ instants = <<>>

NextGroups ==
  \/ GetStudentGrades
  \/ GetClassSubjectScores

SpecGroups == InitGroups /\ [][NextGroups]_vars

(***************************************************************************)
(* The handlers that write scores, with a database that at times refuses   *)
(* the writes to the AuditLog table (the connection is lost, the statement *)
(* times out, the row of the user is gone).                                *)
(***************************************************************************)

\* the database begins or ceases to refuse the writes to AuditLog
AuditOutage ==
  /\ auditWrite' = IF auditWrite = "ok" THEN "error" ELSE "ok"
  /\ UNCHANGED <<scores, auditLogs, nextId, res,
                 enrollments, capacity, transactions, calls,
                 users, tokens, academicYears, instants>>

\* the same four handlers, on the requests this exploration sends
CreateScoreInOutage ==
  /\ \E userId \in Users,
        body \in { Body("s1", "math", "QUIZ", 45000, 50000, 1000),
                   Body("s2", "sci", "QUIZ", 80000, 100000, 300),
                   Body("s1", "math", "QUIZ", 1000000, 50000, 1000),
                   Body("s0", "math", "QUIZ", 45000, 50000, 1000) } :
       createScore(userId, body)
  /\ UNCHANGED others

BulkCreateScoresInOutage ==
  /\ \E userId \in Users,
        body \in { BulkBody("math", 100000, 500,
                            <<[studentId |-> "s1", score |-> 90000],
                              [studentId |-> "s2", score |-> 60000]>>),
                   BulkBody("math", 100000, 500,
                            <<[studentId |-> "s3", score |-> 70000]>>),
                   BulkBody("math", 100000, 500,
                            <<[studentId |-> "s1", score |-> 90000],
                              [studentId |-> "s0", score |-> 60000]>>),
                   BulkBody("math", 100000, 500,
                            <<[studentId |-> "s1", score |-> 90000],
                              [studentId |-> "s2", score |-> 1000000]>>) } :
       bulkCreateScores(userId, body)
  /\ UNCHANGED others

UpdateScoreInOutage ==
  /\ \E userId \in Users, id \in 1..nextId,
        body \in { [score |-> <<>>, maxScore |-> <<>>, weight |-> <<0>>],
                   [score |-> <<1000000>>, maxScore |-> <<>>, weight |-> <<>>] } :
       updateScore(userId, id, body)
  /\ UNCHANGED others

DeleteScoreInOutage ==
  /\ \E userId \in Users, id \in 1..nextId : deleteScore(userId, id)
  /\ UNCHANGED others

NextFaults ==
  \/ CreateScoreInOutage
  \/ BulkCreateScoresInOutage
  \/ UpdateScoreInOutage
  \/ DeleteScoreInOutage
  \/ AuditOutage

SpecFaults == Init /\ [][NextFaults]_vars

(***************************************************************************)
(* The grade views as the event loop runs them: a request in flight gives  *)
(* way to the others at each await, so the rows a query returned are held  *)
(* by the request while other requests read and write; what follows the    *)
(* last await runs to the response without interruption.  calls[p] holds   *)
(* the request of p, the values p holds and, at the end, the response.     *)
(***************************************************************************)

\* the requests for a view the exploration sends
ViewRequests ==
  { [op |-> "getStudentGrades", studentId |-> "s1", semesterId |-> <<>>],
    [op |-> "getStudentGrades", studentId |-> "s0", semesterId |-> <<>>],
    [op |-> "getClassSubjectScores", classSubjectId |-> "cs1"],
    [op |-> "getClassSubjectScores", classSubjectId |-> "cs0"] }

\* what a step of a request in flight leaves alone
tables == <<scores, auditLogs, nextId, res,
            enrollments, capacity, transactions, auditWrite,
    users, tokens, academicYears, instants>>

\* a request for a view arrives
ReceiveView(p) ==
  /\ calls[p].pc \in {"idle", "done"}
  /\ \E req \in ViewRequests :
       calls' = [calls EXCEPT ![p] = [pc |-> "verify", req |-> req]]
  /\ UNCHANGED tables

\* getStudentGrades: await prisma.student.findUnique(...)
GradesFindStudent(p) ==
  /\ calls[p].pc = "verify"
  /\ calls[p].req.op = "getStudentGrades"
  /\ calls' = [calls EXCEPT ![p] =
       IF @.req.studentId \notin Students
         THEN [pc |-> "done", req |-> @.req,
               res |-> errorResponse(@.req, "GET_STUDENT_GRADES_ERROR",
                                     "Student not found", 400)]
         ELSE [pc |-> "scores", req |-> @.req]]
  /\ UNCHANGED tables

\* getStudentGrades: const scores = await prisma.score.findMany(...)
GradesFindScores(p) ==
  /\ calls[p].pc = "scores"
  /\ calls[p].req.op = "getStudentGrades"
  /\ \E rows \in Perms(StudentRows(calls[p].req.studentId, calls[p].req.semesterId)) :
       calls' = [calls EXCEPT ![p] = [pc |-> "group", req |-> @.req, rows |-> rows]]
  /\ UNCHANGED tables

\* (the rows of the query another request in flight has made, if there is
\* one: a result kept where every request sees it)
SharedRows(p) ==
  IF \E q \in Procs \ {p} : calls[q].pc = "group"
    THEN calls[CHOOSE q \in Procs \ {p} : calls[q].pc = "group"].rows
    ELSE calls[p].rows

\* the rows a request holds: the const scores of its own invocation
LocalRows(p) == calls[p].rows

\* getStudentGrades: the grouping and the response
GradesReturn(p) ==
  /\ calls[p].pc = "group"
  /\ calls[p].req.op = "getStudentGrades"
  /\ calls' = [calls EXCEPT ![p] =
       [pc |-> "done", req |-> @.req, rows |-> @.rows,
        res |-> successResponse(@.req, StudentGrades(LocalRows(p)), 200)]]
  /\ UNCHANGED tables

\* getClassSubjectScores: await prisma.classSubject.findUnique(...), with the
\* ACTIVE enrollments of the class
BookFindClassSubject(p) ==
  /\ calls[p].pc = "verify"
  /\ calls[p].req.op = "getClassSubjectScores"
  /\ IF calls[p].req.classSubjectId \notin ClassSubjects
       THEN calls' = [calls EXCEPT ![p] =
              [pc |-> "done", req |-> @.req,
               res |-> errorResponse(@.req, "GET_CLASS_SUBJECT_SCORES_ERROR",
                                     "Class subject not found", 400)]]
       ELSE \E enrolled \in Perms(ActiveEnrollments(calls[p].req.classSubjectId)) :
              calls' = [calls EXCEPT ![p] =
                [pc |-> "scores", req |-> @.req, enrolled |-> enrolled]]
  /\ UNCHANGED tables

\* getClassSubjectScores: const scores = await prisma.score.findMany(...)
BookFindScores(p) ==
  /\ calls[p].pc = "scores"
  /\ calls[p].req.op = "getClassSubjectScores"
  /\ \E rows \in ScoreOrder(ClassSubjectRows(calls[p].req.classSubjectId)) :
       calls' = [calls EXCEPT ![p] =
         [pc |-> "group", req |-> @.req, enrolled |-> @.enrolled, rows |-> rows]]
  /\ UNCHANGED tables

\* getClassSubjectScores: the grouping and the response
BookReturn(p) ==
  /\ calls[p].pc = "group"
  /\ calls[p].req.op = "getClassSubjectScores"
  /\ calls' = [calls EXCEPT ![p] =
       [pc |-> "done", req |-> @.req, enrolled |-> @.enrolled, rows |-> @.rows,
        res |-> successResponse(@.req,
                  [classSubject |-> @.req.classSubjectId,
                   students     |-> ClassSubjectScores(@.enrolled, LocalRows(p))],
                  200)]]
  /\ UNCHANGED tables

\* the tables after one bulkCreateScores for two students: scores of 2 and
\* of 1 out of 3 in math, weight 0.5
InitCalls ==
  /\ scores = { [id |-> 1, studentId |-> "s1", classSubjectId |-> "cs1",
                 subjectId |-> "math", scoreType |-> "QUIZ",
                 score |-> 200, maxScore |-> 300, weight |-> 50],
                [id |-> 2, studentId |-> "s2", classSubjectId |-> "cs1",
                 subjectId |-> "math", scoreType |-> "QUIZ",
                 score |-> 100, maxScore |-> 300, weight |-> 50] }
  /\ auditLogs = << [userId |-> "teacher", action |-> "CREATE",
                     entityType |-> "Score", entityId |-> <<>>] >>
  /\ nextId = 3
  /\ res = NoResponse
  /\ enrollments = Enrollments
  /\ capacity = [c \in Classes |-> DefaultCapacity]
  /\ transactions = {}
  /\ calls = Idle
  /\ auditWrite = "ok"
  /\ users = [u \in Accounts |-> "ACTIVE"]
  /\ tokens = {}
  /\ academicYears = YearsAtStart
  /\ instants = <<>>

NextCalls ==
  \/ \E p \in Procs : ReceiveView(p)
  \/ \E p \in Procs : GradesFindStudent(p)
  \/ \E p \in Procs : GradesFindScores(p)
  \/ \E p \in Procs : GradesReturn(p)
  \/ \E p \in Procs : BookFindClassSubject(p)
  \/ \E p \in Procs : BookFindScores(p)
  \/ \E p \in Procs : BookReturn(p)
  \/ DeleteScore

SpecCalls == InitCalls /\ [][NextCalls]_vars

(***************************************************************************)
(* Enrollment: StudentsService.enrollStudent as the event loop runs it,    *)
(* one step for each await that reads or writes a table that changes, with *)
(* updateEnrollmentStatus and AcademicService.updateClass, whose one write *)
(* depends on nothing they read before it.                                 *)
(***************************************************************************)

\* the strings z.string().uuid() accepts: the ids of the rows, and the id of
\* no row
Uuids == Classes \cup AcademicYears \cup {"1Z"}

\* students.validation.ts
enrollStudentSchema(body) ==
  /\ body.classId \in Uuids
  /\ body.academicYearId \in Uuids

updateEnrollmentStatusSchema(body) ==
  body.status \in {"ACTIVE", "COMPLETED", "WITHDRAWN"}

\* academic.routes.ts: capacity is optional, a positive integer
updateClassSchema(body) ==
  body.capacity # <<>> => body.capacity[1] > 0

\* the requests that are between their first await and their response
InFlight == {q \in Procs : calls[q].pc \notin {"idle", "done"}}

\* the exploration starts no request that writes once MaxAudit of them have
\* written or are in flight
MayWrite == Len(auditLogs) + Cardinality(InFlight) < MaxAudit

\* the requests POST /students/:id/enrollments the exploration sends
EnrollRequests ==
  { [op |-> "enrollStudent", studentId |-> st,
     body |-> [classId |-> "1A", academicYearId |-> "y1"]] : st \in {"s1", "s2", "s0"} }
  \cup
  { [op |-> "enrollStudent", studentId |-> "s1",
     body |-> [classId |-> c, academicYearId |-> "y1"]] : c \in {"1B", "1Z", "?"} }

\* StudentsController.enrollStudent: the request arrives and is validated
ReceiveEnroll(p) ==
  /\ calls[p].pc \in {"idle", "done"}
  /\ MayWrite
  /\ \E userId \in Users, req \in EnrollRequests :
       calls' = [calls EXCEPT ![p] =
         IF ~enrollStudentSchema(req.body)
           THEN [pc |-> "done", req |-> req,
                 res |-> errorResponse(req, "VALIDATION_ERROR", "Invalid input", 422)]
           ELSE [pc |-> "verify", req |-> req, userId |-> userId]]
  /\ UNCHANGED tables

\* the response of a request that ends with an error of the service
EnrollError(call, message) ==
  [pc |-> "done", req |-> call.req,
   res |-> errorResponse(call.req, "ENROLL_STUDENT_ERROR", message, 400)]

\* enrollStudent: the student, the class (with its capacity as it is now)
\* and the academic year are looked up
EnrollVerify(p) ==
  /\ calls[p].pc = "verify"
  /\ calls[p].req.op = "enrollStudent"
  /\ calls' = [calls EXCEPT ![p] =
       IF @.req.studentId \notin Students
         THEN EnrollError(@, "Student not found")
       ELSE IF @.req.body.classId \notin Classes
         THEN EnrollError(@, "Class not found")
       ELSE IF @.req.body.academicYearId \notin AcademicYears
         THEN EnrollError(@, "Academic year not found")
       ELSE [pc |-> "existing", req |-> @.req, userId |-> @.userId,
             classExists |-> [capacity |-> capacity[@.req.body.classId]]]]
  /\ UNCHANGED tables

\* the enrollments of a student in a class in an academic year
EnrollmentsOf(studentId, classId, academicYearId) ==
  {e \in enrollments : /\ e.studentId = studentId
                        /\ e.classId = classId
                        /\ e.academicYearId = academicYearId}

\* enrollStudent: const existingEnrollment = await prisma.enrollment.findFirst
EnrollFindExisting(p) ==
  /\ calls[p].pc = "existing"
  /\ calls' = [calls EXCEPT ![p] =
       IF EnrollmentsOf(@.req.studentId, @.req.body.classId,
                        @.req.body.academicYearId) # {}
         THEN EnrollError(@,
                "Student is already enrolled in this class for this academic year")
         ELSE [@ EXCEPT !.pc = "count"]]
  /\ UNCHANGED tables

\* the ACTIVE enrollments of a class in an academic year
ActiveIn(classId, academicYearId) ==
  {e \in enrollments : /\ e.classId = classId
                        /\ e.academicYearId = academicYearId
                        /\ e.status = "ACTIVE"}

\* enrollStudent: const enrollmentCount = await prisma.enrollment.count
EnrollCount(p) ==
  /\ calls[p].pc = "count"
  /\ calls' = [calls EXCEPT ![p] =
       IF Cardinality(ActiveIn(@.req.body.classId, @.req.body.academicYearId))
            >= @.classExists.capacity
         THEN EnrollError(@, "Class is at full capacity")
         ELSE [@ EXCEPT !.pc = "create"]]
  /\ UNCHANGED tables

\* (a table without the unique index)
NoUniqueIndex(studentId, classId, academicYearId) == FALSE

\* Enrollment_studentId_classId_academicYearId_key refuses the row
UniqueViolation(studentId, classId, academicYearId) ==
  EnrollmentsOf(studentId, classId, academicYearId) # {}

\* enrollStudent: const enrollment = await prisma.enrollment.create
EnrollCreate(p) ==
  /\ calls[p].pc = "create"
  /\ IF UniqueViolation(calls[p].req.studentId, calls[p].req.body.classId,
                        calls[p].req.body.academicYearId)
       THEN /\ calls' = [calls EXCEPT ![p] =
                 EnrollError(@, "Unique constraint failed on the fields: (studentId, classId, academicYearId)")]
            /\ UNCHANGED enrollments
       ELSE /\ enrollments' = enrollments \cup
                 { [id             |-> Cardinality(enrollments) + 1,
                    studentId      |-> calls[p].req.studentId,
                    classId        |-> calls[p].req.body.classId,
                    academicYearId |-> calls[p].req.body.academicYearId,
                    status         |-> "ACTIVE"] }
            /\ calls' = [calls EXCEPT ![p] =
                 [pc |-> "audit", req |-> @.req, userId |-> @.userId,
                  enrollment |-> Cardinality(enrollments) + 1]]
  /\ UNCHANGED <<scores, auditLogs, nextId, res, capacity, transactions, auditWrite,
    users, tokens, academicYears, instants>>

\* enrollStudent: await prisma.auditLog.create, and the response
EnrollAudit(p) ==
  /\ calls[p].pc = "audit"
  /\ IF auditWrite = "error"
       THEN /\ calls' = [calls EXCEPT ![p] = EnrollError(@, AuditError)]
            /\ UNCHANGED auditLogs
       ELSE /\ auditLogs' = Append(auditLogs,
                 [userId |-> calls[p].userId, action |-> "CREATE",
                  entityType |-> "Enrollment", entityId |-> <<calls[p].enrollment>>])
            /\ calls' = [calls EXCEPT ![p] =
                 [pc |-> "done", req |-> @.req,
                  res |-> successResponse(@.req, @.enrollment, 201)]]
  /\ UNCHANGED <<scores, nextId, res, enrollments, capacity, transactions, auditWrite,
    users, tokens, academicYears, instants>>

\* StudentsController.updateEnrollmentStatus with
\* StudentsService.updateEnrollmentStatus
updateEnrollmentStatus(userId, enrollmentId, body) ==
  LET req      == [op |-> "updateEnrollmentStatus", enrollmentId |-> enrollmentId,
                   body |-> body]
      existing == {e \in enrollments : e.id = enrollmentId}
  IN  IF ~updateEnrollmentStatusSchema(body)
        THEN /\ res' = errorResponse(req, "VALIDATION_ERROR", "Invalid input", 422)
             /\ UNCHANGED <<enrollments, auditLogs>>
      ELSE IF existing = {}
        THEN /\ res' = errorResponse(req, "UPDATE_ENROLLMENT_ERROR",
                                     "Enrollment not found", 400)
             /\ UNCHANGED <<enrollments, auditLogs>>
      ELSE
        /\ MayWrite
        /\ enrollments' = (enrollments \ existing)
                            \cup {[e EXCEPT !.status = body.status] : e \in existing}
        /\ IF auditWrite = "error"
             THEN /\ res' = errorResponse(req, "UPDATE_ENROLLMENT_ERROR",
                                          AuditError, 400)
                  /\ UNCHANGED auditLogs
             ELSE /\ auditLogs' = Append(auditLogs,
                       [userId |-> userId, action |-> "UPDATE",
                        entityType |-> "Enrollment", entityId |-> <<enrollmentId>>])
                  /\ res' = successResponse(req, enrollmentId, 200)

UpdateEnrollmentStatus ==
  /\ \E userId \in Users, enrollmentId \in 1..(Cardinality(enrollments) + 1),
        status \in {"ACTIVE", "WITHDRAWN", "DROPPED"} :
       updateEnrollmentStatus(userId, enrollmentId, [status |-> status])
  /\ UNCHANGED <<scores, nextId, capacity, transactions, calls, auditWrite,
    users, tokens, academicYears, instants>>

\* the capacities PUT /classes/:id asks for (none, 0, 1 and 2)
CapacitiesAsked == {<<>>, <<0>>, <<1>>, <<2>>}

\* AcademicController.updateClass with AcademicService.updateClass
updateClass(userId, id, body) ==
  LET req == [op |-> "updateClass", id |-> id, body |-> body]
  IN  IF ~updateClassSchema(body)
        THEN /\ res' = errorResponse(req, "VALIDATION_ERROR", "Invalid input", 422)
             /\ UNCHANGED <<capacity, auditLogs>>
      ELSE IF id \notin Classes
        THEN /\ res' = errorResponse(req, "UPDATE_CLASS_ERROR", "Class not found", 400)
             /\ UNCHANGED <<capacity, auditLogs>>
      ELSE
        /\ MayWrite
        /\ capacity' = IF body.capacity = <<>> THEN capacity
                        ELSE [capacity EXCEPT ![id] = body.capacity[1]]
        /\ IF auditWrite = "error"
             THEN /\ res' = errorResponse(req, "UPDATE_CLASS_ERROR",
                                          AuditError, 400)
                  /\ UNCHANGED auditLogs
             ELSE /\ auditLogs' = Append(auditLogs,
                       [userId |-> userId, action |-> "UPDATE",
                        entityType |-> "Class", entityId |-> <<id>>])
                  /\ res' = successResponse(req, id, 200)

UpdateClass ==
  /\ \E userId \in Users, id \in {"1A", "1Z"}, cap \in CapacitiesAsked :
       updateClass(userId, id, [capacity |-> cap])
  /\ UNCHANGED <<scores, nextId, enrollments, transactions, calls, auditWrite,
    users, tokens, academicYears, instants>>

\* no enrollment yet; class 1A was created with room for one student and
\* class 1B with room for two
InitEnroll ==
  /\ scores = {}
  /\ auditLogs = <<>>
  /\ nextId = 1
  /\ res = NoResponse
  /\ enrollments = {}
  /\ capacity = [c \in Classes |-> IF c = "1A" THEN 1 ELSE 2]
  /\ transactions = {}
  /\ calls = Idle
  /\ auditWrite = "ok"
  /\ users = [u \in Accounts |-> "ACTIVE"]
  /\ tokens = {}
  /\ academicYears = YearsAtStart
  /\ instants = <<>>

NextEnroll ==
  \/ \E p \in Procs : ReceiveEnroll(p)
  \/ \E p \in Procs : EnrollVerify(p)
  \/ \E p \in Procs : EnrollFindExisting(p)
  \/ \E p \in Procs : EnrollCount(p)
  \/ \E p \in Procs : EnrollCreate(p)
  \/ \E p \in Procs : EnrollAudit(p)
  \/ UpdateEnrollmentStatus
  \/ UpdateClass

SpecEnroll == InitEnroll /\ [][NextEnroll]_vars

(***************************************************************************)
(* FinanceController.generateInvoices with FinanceService.generateInvoices *)
(* as the event loop runs it.  The body is a GenerateInvoicesInput         *)
(* (generateInvoicesSchema is not among the sources, so the bodies sent    *)
(* are bodies every validation of that type lets through: no student twice *)
(* in studentIds, and amounts of money, of two decimals, far below the     *)
(* limit of the column).  amount is in thousandths as the other numbers of *)
(* a body are; the column keeps hundredths.                                *)
(***************************************************************************)

\* new Date(input.dueDate): a string that is no date gives Invalid Date,
\* which transaction.create refuses
DateOf(dueDate) ==
  IF dueDate = "2026-01-31" THEN <<2026, 1, 31>> ELSE <<>>

InvoiceBody(studentIds, classId, gradeId) ==
  [academicYearId |-> "y1", category |-> "TUITION", amount |-> 250000,
   description |-> "term 1", dueDate |-> "2026-01-31",
   studentIds |-> studentIds, classId |-> classId, gradeId |-> gradeId]

\* the bodies of POST /finance/invoices/generate the exploration sends
InvoiceBodies ==
  { InvoiceBody(<<"s1", "s2">>, <<>>, <<>>),
    InvoiceBody(<<"s1", "s0">>, <<>>, <<>>),
    InvoiceBody(<<"s3">>, <<"1A">>, <<"g1">>),
    InvoiceBody(<<>>, <<"1A">>, <<"g1">>),
    InvoiceBody(<<>>, <<"1B">>, <<>>),
    InvoiceBody(<<>>, <<"1Z">>, <<>>),
    InvoiceBody(<<>>, <<>>, <<"g1">>),
    InvoiceBody(<<>>, <<>>, <<>>),
    [InvoiceBody(<<>>, <<>>, <<>>) EXCEPT !.academicYearId = "y0"],
    [InvoiceBody(<<"s1", "s2">>, <<>>, <<>>) EXCEPT !.amount = 99990],
    [InvoiceBody(<<>>, <<"1A">>, <<>>) EXCEPT !.dueDate = "soon"] }

\* the enrollments a findMany of generateInvoices selects
InvoiceEnrollments(input) ==
  {e \in enrollments :
     /\ e.academicYearId = input.academicYearId
     /\ e.status = "ACTIVE"
     /\ IF input.classId # <<>> THEN e.classId = input.classId[1]
        ELSE IF input.gradeId # <<>>
          THEN e.classId \in Classes /\ gradeOf[e.classId] = input.gradeId[1]
        ELSE TRUE}

\* ([...new Set(list)]: the list without the repetitions of a student)
DistinctStudents(list) ==
  SelectSeq([i \in 1..Len(list) |->
               IF \E j \in 1..(i - 1) : list[j] = list[i] THEN "" ELSE list[i]],
            LAMBDA x : x # "")

\* the student of each selected enrollment, in the order of the rows: the
\* lists studentIds can be after the selection
ResolvedLists(input) ==
  IF input.studentIds # <<>> THEN {input.studentIds}
  ELSE LET lists == {[i \in 1..Len(rows) |-> rows[i].studentId] :
                       rows \in Perms(InvoiceEnrollments(input))}
       IN  IF input.classId # <<>> \/ input.gradeId # <<>>
             THEN lists
             ELSE {DistinctStudents(list) : list \in lists}

\* (the row with the status the column gives a row that names none)
InvoiceByDefault(id, studentId, input, createdById) ==
  [id |-> id, type |-> "INCOME", category |-> input.category,
   amount |-> Decimal2(input.amount), currency |-> "LAK",
   description |-> input.description, status |-> "COMPLETED",
   studentId |-> studentId, academicYearId |-> input.academicYearId,
   dueDate |-> DateOf(input.dueDate), createdById |-> createdById]

\* the row transaction.create inserts for the student of one place of the list
Invoice(id, studentId, input, createdById) ==
  [id |-> id, type |-> "INCOME", category |-> input.category,
   amount |-> Decimal2(input.amount), currency |-> "LAK",
   description |-> input.description, status |-> "PENDING",
   studentId |-> studentId, academicYearId |-> input.academicYearId,
   dueDate |-> DateOf(input.dueDate), createdById |-> createdById]

InvoicesError(call, message) ==
  errorResponse(call.req, "GENERATE_INVOICES_ERROR", message, 400)

\* the request arrives; the academic year is looked up and the list of
\* students resolved; Promise.all starts one transaction.create per place
GenerateInvoices(p) ==
  /\ calls[p].pc \in {"idle", "done"}
  /\ MayWrite
  /\ transactions = {}
  /\ \E userId \in Users, body \in InvoiceBodies :
     \E studentIds \in ResolvedLists(body) :
       calls' = [calls EXCEPT ![p] =
         LET call == [pc |-> "creates", req |-> [op |-> "generateInvoices", body |-> body],
                      userId |-> userId, studentIds |-> studentIds,
                      invoices |-> [i \in {} |-> 0], failed |-> {},
                      res |-> NoResponse]
         IN  IF body.academicYearId \notin AcademicYears
               THEN [call EXCEPT !.pc = "done", !.studentIds = <<>>,
                                 !.res = InvoicesError(call, "Academic year not found")]
             ELSE IF studentIds = <<>>
               THEN [call EXCEPT !.pc = "done",
                       !.res = InvoicesError(call, "No students found for invoice generation")]
             ELSE call]
  /\ UNCHANGED tables

\* the places of the list whose transaction.create has not ended yet
Pending(call) ==
  (1..Len(call.studentIds)) \ (DOMAIN call.invoices \cup call.failed)

\* one transaction.create of the call ends: the row is inserted, or the
\* insert is refused (Invalid Date, or a studentId that refers to no student)
InvoiceCreate(p) ==
  /\ calls[p].pc \in {"creates", "orphans"}
  /\ \E i \in Pending(calls[p]) :
       LET call    == calls[p]
           invoice == Invoice(Cardinality(transactions) + 1, call.studentIds[i],
                              call.req.body, call.userId)
           pc      == IF call.pc = "orphans" /\ Pending(call) = {i}
                        THEN "done" ELSE call.pc
       IN  IF invoice.dueDate = <<>> \/ invoice.studentId \notin Students
             THEN /\ calls' = [calls EXCEPT ![p] =
                       [call EXCEPT !.pc = pc, !.failed = @ \cup {i}]]
                  /\ UNCHANGED transactions
             ELSE /\ transactions' = transactions \cup {invoice}
                  /\ calls' = [calls EXCEPT ![p] =
                       [call EXCEPT !.pc = pc,
                          !.invoices = [j \in DOMAIN @ \cup {i} |->
                                          IF j = i THEN invoice.id ELSE @[j]]]]
  /\ UNCHANGED <<scores, auditLogs, nextId, res, enrollments, capacity, auditWrite,
    users, tokens, academicYears, instants>>

\* Promise.all rejects as soon as one create was refused, while the others
\* go on, and the controller answers 400
InvoicesRejected(p) ==
  /\ calls[p].pc = "creates"
  /\ calls[p].failed # {}
  /\ calls' = [calls EXCEPT ![p] =
       [@ EXCEPT !.pc = IF Pending(calls[p]) = {} THEN "done" ELSE "orphans",
                 !.res = InvoicesError(calls[p],
                           IF DateOf(calls[p].req.body.dueDate) = <<>>
                             THEN "Invalid Date"
                             ELSE "Foreign key constraint failed")]]
  /\ UNCHANGED tables

\* Promise.all resolves when every create has inserted its row; the audit
\* entry is written and the controller answers 201
InvoicesCreated(p) ==
  /\ calls[p].pc = "creates"
  /\ DOMAIN calls[p].invoices = 1..Len(calls[p].studentIds)
  /\ IF auditWrite = "error"
       THEN /\ calls' = [calls EXCEPT ![p] =
                 [@ EXCEPT !.pc = "done", !.res = InvoicesError(calls[p], AuditError)]]
            /\ UNCHANGED auditLogs
       ELSE /\ auditLogs' = Append(auditLogs,
                 [userId |-> calls[p].userId, action |-> "CREATE",
                  entityType |-> "Transaction", entityId |-> <<>>])
            /\ calls' = [calls EXCEPT ![p] =
                 [@ EXCEPT !.pc = "done",
                    !.res = successResponse(calls[p].req,
                              [invoices |-> calls[p].invoices,
                               count |-> Cardinality(DOMAIN calls[p].invoices)], 201)]]
  /\ UNCHANGED <<scores, nextId, res, enrollments, capacity, transactions, auditWrite,
    users, tokens, academicYears, instants>>

\* the Enrollment tables the exploration starts from: enrollStudent and
\* updateEnrollmentStatus lead to each of them
EnrollmentTables ==
  LET row(id, studentId, classId, status) ==
        [id |-> id, studentId |-> studentId, classId |-> classId,
         academicYearId |-> "y1", status |-> status]
      rows == { row(1, "s1", "1A", "ACTIVE"), row(2, "s1", "1B", "ACTIVE"),
                row(3, "s2", "1A", "ACTIVE"), row(3, "s2", "1A", "WITHDRAWN"),
                row(4, "s3", "1B", "WITHDRAWN") }
  IN  {t \in SUBSET rows : \A d, e \in t : d.id = e.id => d = e}

InitInvoices ==
  /\ scores = {}
  /\ auditLogs = <<>>
  /\ nextId = 1
  /\ res = NoResponse
  /\ enrollments \in EnrollmentTables
  /\ capacity = [c \in Classes |-> DefaultCapacity]
  /\ transactions = {}
  /\ calls = Idle
  /\ auditWrite = "ok"
  /\ users = [u \in Accounts |-> "ACTIVE"]
  /\ tokens = {}
  /\ academicYears = YearsAtStart
  /\ instants = <<>>

NextInvoices ==
  \/ \E p \in Procs : GenerateInvoices(p)
  \/ \E p \in Procs : InvoiceCreate(p)
  \/ \E p \in Procs : InvoicesRejected(p)
  \/ \E p \in Procs : InvoicesCreated(p)
  \/ AuditOutage

SpecInvoices == InitInvoices /\ [][NextInvoices]_vars

(***************************************************************************)
(* The grading router: authenticate, then the authorize of the route, then *)
(* the handler.  An access token is the payload generateAccessToken signed *)
(* at a login; a token no login signed fails jwt.verify.  The header is    *)
(* the words of the Authorization header (<<>>: no header).  calls[1]      *)
(* keeps the last request of the router, header and route.                 *)
(***************************************************************************)
GradingRoutes ==
  {"listScores", "getScoreById", "createScore", "bulkCreateScores",
   "updateScore", "deleteScore", "getStudentGrades", "getClassSubjectScores"}

\* authorize(...allowedRoles) of each route
allowedRoles ==
  [route \in GradingRoutes |->
     IF route = "getStudentGrades" THEN {"ADMIN", "TEACHER", "STUDENT", "PARENT"}
                                   ELSE {"ADMIN", "TEACHER"}]

\* generateAccessToken({userId, email, role})
AccessToken(userId) == [userId |-> userId, role |-> roleOf[userId]]

\* the Authorization headers the exploration sends
Headers ==
  {<<>>, <<"Basic", AccessToken("teacher")>>,
   <<"Bearer", [userId |-> "intruder", role |-> "ACCOUNTANT"]>>}
  \cup {<<"Bearer", AccessToken(u)>> : u \in Accounts}

\* (a token is taken for good as it is read, whoever signed it)
DecodedOnly(token) == TRUE

\* jwt.verify(token, config.jwt.secret)
verifyAccessToken(token) == token \in tokens

\* AuthController.login with AuthService.login
Login ==
  /\ Len(SelectSeq(auditLogs, LAMBDA e : e.action = "LOGIN")) < MaxLogins
  /\ \E username \in Accounts \cup {"nobody"}, password \in {"right", "wrong"} :
       LET req == [op |-> "login", username |-> username]
       IN  IF username \notin Accounts \/ (users[username] = "ACTIVE" /\ password = "wrong")
             THEN /\ res' = errorResponse(req, "LOGIN_ERROR", "Invalid credentials", 401)
                  /\ UNCHANGED <<auditLogs, tokens>>
           ELSE IF users[username] # "ACTIVE"
             THEN /\ res' = errorResponse(req, "LOGIN_ERROR", "Account is not active", 401)
                  /\ UNCHANGED <<auditLogs, tokens>>
           ELSE /\ tokens' = tokens \cup {AccessToken(username)}
                /\ auditLogs' = Append(auditLogs,
                     [userId |-> username, action |-> "LOGIN",
                      entityType |-> "User", entityId |-> <<username>>])
                /\ res' = successResponse(req, AccessToken(username), 200)
  /\ UNCHANGED <<scores, nextId, enrollments, capacity, transactions, calls,
                 auditWrite, users, academicYears, instants>>

\* (the listing, with an entry of the reading in the audit log)
listScoresAudited(studentId) ==
  /\ res' = successResponse([op |-> "listScores", studentId |-> studentId],
              [scores |-> {s \in scores : studentId # <<>> => s.studentId = studentId[1]},
               total  |-> Cardinality({s \in scores :
                                         studentId # <<>> => s.studentId = studentId[1]})],
              200)
  /\ auditLogs' = Append(auditLogs, [userId |-> "teacher", action |-> "READ",
                                     entityType |-> "Score", entityId |-> <<>>])
  /\ UNCHANGED <<scores, nextId>>

\* GradingService.listScores: the rows of a student, or all of them
listScores(studentId) ==
  /\ res' = successResponse([op |-> "listScores", studentId |-> studentId],
              [scores |-> {s \in scores : studentId # <<>> => s.studentId = studentId[1]},
               total  |-> Cardinality({s \in scores :
                                         studentId # <<>> => s.studentId = studentId[1]})],
              200)
  /\ UNCHANGED <<scores, auditLogs, nextId>>

\* GradingController.getScoreById with GradingService.getScoreById
getScoreById(id) ==
  /\ res' = IF \E s \in scores : s.id = id
              THEN successResponse([op |-> "getScoreById", id |-> id],
                                   CHOOSE s \in scores : s.id = id, 200)
              ELSE errorResponse([op |-> "getScoreById", id |-> id],
                                 "GET_SCORE_ERROR", "Score not found", 404)
  /\ UNCHANGED <<scores, auditLogs, nextId>>

\* the handler of a route, for the user of the token
Handler(route, userId) ==
  CASE route = "listScores" ->
         \E studentId \in {<<>>, <<"s1">>} : listScores(studentId)
    [] route = "getScoreById" ->
         \E id \in 1..nextId : getScoreById(id)
    [] route = "createScore" ->
         \E body \in { Body("s2", "math", "QUIZ", 30000, 50000, 1000),
                      Body("s1", "math", "QUIZ", 45000, 0, 1000) } :
           createScore(userId, body)
    [] route = "bulkCreateScores" ->
         bulkCreateScores(userId,
           BulkBody("math", 100000, 500, <<[studentId |-> "s1", score |-> 90000],
                                           [studentId |-> "s2", score |-> 60000]>>))
    [] route = "updateScore" ->
         \E id \in 1..nextId :
           updateScore(userId, id, [score |-> <<>>, maxScore |-> <<>>, weight |-> <<0>>])
    [] route = "deleteScore" ->
         \E id \in 1..nextId : deleteScore(userId, id)
    [] route = "getStudentGrades" ->
         \E studentId \in {"s1", "s2"} : getStudentGrades(studentId, <<>>)
    [] route = "getClassSubjectScores" ->
         getClassSubjectScores("cs1")

\* a request to the grading router: router.use(authenticate), the authorize
\* of the route, then the handler
GradingRequest(header, route) ==
  /\   /\ calls' = [calls EXCEPT ![1] = [pc |-> "done", header |-> header,
                                         route |-> route]]
       /\ IF Len(header) < 2 \/ header[1] # "Bearer"
            THEN /\ res' = errorResponse([op |-> route], "AUTH_ERROR",
                                         "No token provided", 401)
                 /\ UNCHANGED <<scores, auditLogs, nextId>>
          ELSE IF ~verifyAccessToken(header[2])
            THEN /\ res' = errorResponse([op |-> route], "AUTH_ERROR",
                                         "Invalid or expired token", 401)
                 /\ UNCHANGED <<scores, auditLogs, nextId>>
          ELSE IF header[2].role \notin allowedRoles[route]
            THEN /\ res' = errorResponse([op |-> route], "FORBIDDEN",
                             "You do not have permission to access this resource", 403)
                 /\ UNCHANGED <<scores, auditLogs, nextId>>
          ELSE Handler(route, header[2].userId)
  /\ UNCHANGED <<enrollments, capacity, transactions, auditWrite,
                 users, tokens, academicYears, instants>>

LoginOrder == <<"admin", "teacher", "clerk", "pupil1", "parent2">>

\* every account has logged in once, and nothing else has happened
InitRoutes ==
  /\ scores = {}
  /\ auditLogs = [i \in 1..5 |->
                    [userId |-> LoginOrder[i], action |-> "LOGIN",
                     entityType |-> "User", entityId |-> <<LoginOrder[i]>>]]
  /\ nextId = 1
  /\ res = NoResponse
  /\ enrollments = Enrollments
  /\ capacity = [c \in Classes |-> DefaultCapacity]
  /\ transactions = {}
  /\ calls = Idle
  /\ auditWrite = "ok"
  /\ users = [u \in Accounts |-> "ACTIVE"]
  /\ tokens = {AccessToken(u) : u \in Accounts}
  /\ academicYears = YearsAtStart
  /\ instants = <<>>

NextRoutes ==
  \/ \E header \in Headers : GradingRequest(header, "listScores")
  \/ \E header \in Headers : GradingRequest(header, "getScoreById")
  \/ \E header \in Headers : GradingRequest(header, "createScore")
  \/ \E header \in Headers : GradingRequest(header, "bulkCreateScores")
  \/ \E header \in Headers : GradingRequest(header, "updateScore")
  \/ \E header \in Headers : GradingRequest(header, "deleteScore")
  \/ \E header \in Headers : GradingRequest(header, "getStudentGrades")
  \/ \E header \in Headers : GradingRequest(header, "getClassSubjectScores")

SpecRoutes == InitRoutes /\ [][NextRoutes]_vars

(***************************************************************************)
(* The accounts: logins, the two routes of the users router that change    *)
(* the status of a user (for ADMIN only), and a route of the grading       *)
(* router for the tokens the logins gave.                                  *)
(***************************************************************************)

\* DELETE /users/:id (UsersService.deleteUser) and PATCH /users/:id/status
\* (UsersService.updateStatus), behind authenticate and authorize('ADMIN')
UsersRequest(header, route) ==
  /\ Len(SelectSeq(auditLogs, LAMBDA e : e.action # "LOGIN")) < MaxAudit
  /\ \E id \in {"teacher", "pupil1", "admin", "nobody"},
        status \in {"ACTIVE", "INACTIVE", "SUSPENDED"} :
       IF Len(header) < 2 \/ header[1] # "Bearer"
         THEN /\ res' = errorResponse([op |-> route], "AUTH_ERROR",
                                      "No token provided", 401)
              /\ UNCHANGED <<users, auditLogs>>
       ELSE IF ~verifyAccessToken(header[2])
         THEN /\ res' = errorResponse([op |-> route], "AUTH_ERROR",
                                      "Invalid or expired token", 401)
              /\ UNCHANGED <<users, auditLogs>>
       ELSE IF header[2].role # "ADMIN"
         THEN /\ res' = errorResponse([op |-> route], "FORBIDDEN",
                          "You do not have permission to access this resource", 403)
              /\ UNCHANGED <<users, auditLogs>>
       ELSE IF id \notin Accounts
         THEN /\ res' = errorResponse([op |-> route, id |-> id],
                          IF route = "deleteUser" THEN "DELETE_USER_ERROR"
                                                  ELSE "UPDATE_STATUS_ERROR",
                          "User not found", 400)
              /\ UNCHANGED <<users, auditLogs>>
       ELSE IF route = "deleteUser" /\ id = header[2].userId
         THEN /\ res' = errorResponse([op |-> route, id |-> id], "DELETE_USER_ERROR",
                                      "Cannot delete your own account", 400)
              /\ UNCHANGED <<users, auditLogs>>
       ELSE /\ users' = [users EXCEPT ![id] =
                           IF route = "deleteUser" THEN "INACTIVE" ELSE status]
            /\ auditLogs' = Append(auditLogs,
                 [userId |-> header[2].userId,
                  action |-> IF route = "deleteUser" THEN "DELETE" ELSE "UPDATE",
                  entityType |-> "User", entityId |-> <<id>>])
            /\ res' = successResponse([op |-> route, id |-> id], users'[id], 200)
  /\ UNCHANGED <<scores, nextId, enrollments, capacity, transactions, calls,
                 auditWrite, tokens, academicYears, instants>>

NextAccounts ==
  \/ Login
  \/ \E header \in Headers : UsersRequest(header, "deleteUser")
  \/ \E header \in Headers : UsersRequest(header, "updateStatus")
  \/ \E header \in Headers : GradingRequest(header, "listScores")

SpecAccounts == Init /\ [][NextAccounts]_vars

(***************************************************************************)
(* AcademicService.createAcademicYear and updateAcademicYear as the event  *)
(* loop runs them, one step per await.  A request is [op, id, isCurrent],  *)
(* isCurrent <<>> when the body has none; the other fields of a body play  *)
(* no part.                                                                *)
(***************************************************************************)

\* the request arrives; updateAcademicYear looks the year up
YearRequest(p) ==
  /\ calls[p].pc \in {"idle", "done"}
  /\ MayWrite
  /\ \E op \in {"createAcademicYear", "updateAcademicYear"},
        id \in {"y1", "y2", "y0"}, isCurrent \in {<<>>, <<TRUE>>, <<FALSE>>} :
       /\ op = "createAcademicYear" => id = "y0"
       /\ calls' = [calls EXCEPT ![p] =
            IF op = "updateAcademicYear" /\ ~\E y \in academicYears : y.id = id
              THEN [pc |-> "done", req |-> [op |-> op, id |-> id, isCurrent |-> isCurrent],
                    res |-> errorResponse([op |-> op, id |-> id], "UPDATE_ACADEMIC_YEAR_ERROR",
                                          "Academic year not found", 400)]
              ELSE [pc |-> IF isCurrent = <<TRUE>> THEN "unset" ELSE "write",
                    req |-> [op |-> op, id |-> id, isCurrent |-> isCurrent]]]
  /\ UNCHANGED tables

\* the where of updateMany: {isCurrent: true}, and {id: {not: id}} in
\* updateAcademicYear
IsUnset(p, y) ==
  y.isCurrent /\ (calls[p].req.op = "updateAcademicYear" => y.id # calls[p].req.id)

\* academicYear.updateMany({where, data: {isCurrent: false}})
YearUnsetOthers(p) ==
  /\ calls[p].pc = "unset"
  /\ academicYears' = {[y EXCEPT !.isCurrent = IF IsUnset(p, y) THEN FALSE ELSE @] :
                         y \in academicYears}
  /\ calls' = [calls EXCEPT ![p].pc = "write"]
  /\ UNCHANGED <<scores, auditLogs, nextId, res, enrollments, capacity,
                 transactions, auditWrite, users, tokens, instants>>

\* academicYear.create, or academicYear.update of the year of the request
YearWrite(p) ==
  /\ calls[p].pc = "write"
  /\ IF calls[p].req.op = "createAcademicYear"
       THEN /\ academicYears' = academicYears \cup
                 {[id        |-> <<"y1", "y2", "y3", "y4">>[Cardinality(academicYears) + 1],
                   isCurrent |-> calls[p].req.isCurrent = <<TRUE>>]}
            /\ calls' = [calls EXCEPT ![p].pc = "audit",
                 ![p].req.id = <<"y1", "y2", "y3", "y4">>[Cardinality(academicYears) + 1]]
       ELSE /\ academicYears' =
                 {IF y.id = calls[p].req.id /\ calls[p].req.isCurrent # <<>>
                    THEN [y EXCEPT !.isCurrent = calls[p].req.isCurrent[1]]
                    ELSE y : y \in academicYears}
            /\ calls' = [calls EXCEPT ![p].pc = "audit"]
  /\ UNCHANGED <<scores, auditLogs, nextId, res, enrollments, capacity,
                 transactions, auditWrite, users, tokens, instants>>

\* auditLog.create, and the controller answers
YearAudit(p) ==
  /\ calls[p].pc = "audit"
  /\ calls[p].req.op \in {"createAcademicYear", "updateAcademicYear"}
  /\ auditLogs' = Append(auditLogs,
       [userId |-> "admin",
        action |-> IF calls[p].req.op = "createAcademicYear" THEN "CREATE" ELSE "UPDATE",
        entityType |-> "AcademicYear", entityId |-> <<calls[p].req.id>>])
  /\ calls' = [calls EXCEPT ![p] =
       [pc |-> "done", req |-> calls[p].req,
        res |-> successResponse(calls[p].req, calls[p].req.id,
                  IF calls[p].req.op = "createAcademicYear" THEN 201 ELSE 200)]]
  /\ UNCHANGED <<scores, nextId, res, enrollments, capacity, transactions,
                 auditWrite, users, tokens, academicYears, instants>>

NextYears ==
  \/ \E p \in Procs : YearRequest(p)
  \/ \E p \in Procs : YearUnsetOthers(p)
  \/ \E p \in Procs : YearWrite(p)
  \/ \E p \in Procs : YearAudit(p)

SpecYears == Init /\ [][NextYears]_vars

(***************************************************************************)
(* FinanceService.createTransaction, updateTransaction and                 *)
(* deleteTransaction as the event loop runs them.  A row of the            *)
(* Transaction table is [id, status, receiptNumber, transactionDate]: the  *)
(* receipt number is <<>> (NULL) or <<number>>, a number is <<"REC", year, *)
(* digits>>, and a date is its year.  The bodies carry no studentId and no *)
(* academicYearId, so the handler's first read is the one modelled in      *)
(* TxRequest; the moment a request arrives cannot be told from the moment  *)
(* of its first read.                                                      *)
(***************************************************************************)

\* requests admitted in one run
MaxTx == 4

\* new Date().getFullYear()
CurrentYear == 2026

RECURSIVE DecimalString(_)
\* String(n): the decimal digits of n
DecimalString(n) ==
  IF n < 10 THEN <<n>> ELSE Append(DecimalString(n \div 10), n % 10)

\* digits.padStart(width, '0')
padStart(digits, width) ==
  IF Len(digits) >= width THEN digits
  ELSE [i \in 1..(width - Len(digits)) |-> 0] \o digits

\* the request arrives and its first read is made: transaction.count of a
\* completed creation without receipt number, transaction.findUnique of an
\* update or a deletion
TxRequest(p) ==
  /\ calls[p].pc \in {"idle", "done"}
  /\ Len(auditLogs) + Cardinality(InFlight) < MaxTx
  /\ \/ \E status \in {"COMPLETED", "PENDING"},
           given \in {<<>>, <<<<"REC", 2025, padStart(DecimalString(1), 6)>>>>},
           transactionDate \in {<<>>, <<2025>>} :
          calls' = [calls EXCEPT ![p] =
            [pc  |-> "write",
             req |-> [op |-> "createTransaction",
                      input |-> [status |-> status, receiptNumber |-> given,
                                 transactionDate |-> transactionDate]],
             receiptNumber |->
               IF status = "COMPLETED" /\ given = <<>>
                 THEN <<<<"REC", CurrentYear,
                          padStart(DecimalString(
                            Cardinality({t \in transactions :
                                           /\ t.status = "COMPLETED"
                                           /\ t.transactionDate >= CurrentYear}) + 1), 6)>>>>
                 ELSE given]]
     \/ \E op \in {"updateTransaction", "deleteTransaction"}, id \in 1..nextId,
           status \in {<<>>, <<"COMPLETED">>, <<"PENDING">>} :
          /\ op = "deleteTransaction" => status = <<>>
          /\ calls' = [calls EXCEPT ![p] =
               IF \E t \in transactions : t.id = id
                 THEN [pc |-> "write", req |-> [op |-> op, id |-> id, status |-> status]]
                 ELSE [pc |-> "done", req |-> [op |-> op, id |-> id, status |-> status],
                       res |-> errorResponse([op |-> op, id |-> id],
                                 IF op = "updateTransaction" THEN "UPDATE_TRANSACTION_ERROR"
                                 ELSE "DELETE_TRANSACTION_ERROR",
                                 "Transaction not found", 400)]]
  /\ UNCHANGED tables

\* transaction.create, transaction.update or transaction.delete: the unique
\* index on receiptNumber refuses a second row with the same number, and a
\* row that is gone can be neither updated nor deleted
TxWrite(p) ==
  /\ calls[p].pc = "write"
  /\ calls[p].req.op \in {"createTransaction", "updateTransaction", "deleteTransaction"}
  /\ IF calls[p].req.op = "createTransaction"
       THEN IF /\ calls[p].receiptNumber # <<>>
               /\ \E t \in transactions : t.receiptNumber = calls[p].receiptNumber
              THEN /\ calls' = [calls EXCEPT ![p] =
                        [pc |-> "done", req |-> calls[p].req,
                         res |-> errorResponse(calls[p].req, "CREATE_TRANSACTION_ERROR",
                                   "Unique constraint failed on the fields: (receiptNumber)",
                                   400)]]
                   /\ UNCHANGED <<transactions, nextId>>
              ELSE /\ transactions' = transactions \cup
                        {[id |-> nextId, status |-> calls[p].req.input.status,
                          receiptNumber |-> calls[p].receiptNumber,
                          transactionDate |->
                            IF calls[p].req.input.transactionDate = <<>> THEN CurrentYear
                            ELSE calls[p].req.input.transactionDate[1]]}
                   /\ nextId' = nextId + 1
                   /\ calls' = [calls EXCEPT ![p] =
                        [pc |-> "audit", req |-> calls[p].req, id |-> nextId,
                         receiptNumber |-> calls[p].receiptNumber]]
       ELSE IF ~\E t \in transactions : t.id = calls[p].req.id
              THEN /\ calls' = [calls EXCEPT ![p] =
                        [pc |-> "done", req |-> calls[p].req,
                         res |-> errorResponse(calls[p].req,
                                   IF calls[p].req.op = "updateTransaction"
                                     THEN "UPDATE_TRANSACTION_ERROR"
                                     ELSE "DELETE_TRANSACTION_ERROR",
                                   "Record to update or delete does not exist", 400)]]
                   /\ UNCHANGED <<transactions, nextId>>
              ELSE /\ transactions' =
                        IF calls[p].req.op = "deleteTransaction"
                          THEN {t \in transactions : t.id # calls[p].req.id}
                          ELSE {IF t.id = calls[p].req.id /\ calls[p].req.status # <<>>
                                  THEN [t EXCEPT !.status = calls[p].req.status[1]]
                                  ELSE t : t \in transactions}
                   /\ calls' = [calls EXCEPT ![p] =
                        [pc |-> "audit", req |-> calls[p].req, id |-> calls[p].req.id,
                         receiptNumber |-> <<>>]]
                   /\ UNCHANGED nextId
  /\ UNCHANGED <<scores, auditLogs, res, enrollments, capacity, auditWrite,
                 users, tokens, academicYears, instants>>

\* auditLog.create, and the controller answers
TxAudit(p) ==
  /\ calls[p].pc = "audit"
  /\ calls[p].req.op \in {"createTransaction", "updateTransaction", "deleteTransaction"}
  /\ auditLogs' = Append(auditLogs,
       [userId |-> "clerk",
        action |-> CASE calls[p].req.op = "createTransaction" -> "CREATE"
                     [] calls[p].req.op = "updateTransaction" -> "UPDATE"
                     [] OTHER -> "DELETE",
        entityType |-> "Transaction", entityId |-> <<calls[p].id>>])
  /\ calls' = [calls EXCEPT ![p] =
       [pc |-> "done", req |-> calls[p].req,
        res |-> successResponse(calls[p].req,
                  [id |-> calls[p].id, receiptNumber |-> calls[p].receiptNumber],
                  IF calls[p].req.op = "createTransaction" THEN 201 ELSE 200)]]
  /\ UNCHANGED <<scores, nextId, res, enrollments, capacity, transactions,
                 auditWrite, users, tokens, academicYears, instants>>

NextReceipts ==
  \/ \E p \in Procs : TxRequest(p)
  \/ \E p \in Procs : TxWrite(p)
  \/ \E p \in Procs : TxAudit(p)

SpecReceipts == Init /\ [][NextReceipts]_vars

(***************************************************************************)
(* The gradebook among writes: one getClassSubjectScores request takes its *)
(* steps while createScore, updateScore, deleteScore and                   *)
(* updateEnrollmentStatus requests are served.  A write reaches its table  *)
(* in one statement, so each is one step here; instants records the tables *)
(* the gradebook reads from as they are after each such step.              *)
(***************************************************************************)

\* the Enrollment and Score tables as they are
StoreNow == [enrollments |-> enrollments, scores |-> scores]

\* the history after a step that leaves the tables as store
Seen(store) ==
  IF InFlight = {} \/ instants[Len(instants)] = store THEN instants
  ELSE Append(instants, store)

\* GET /class-subjects/:classSubjectId/scores arrives; the responses sent
\* before are kept no longer
BookCall(p) ==
  /\ \A q \in Procs : calls[q].pc \in {"idle", "done"}
  /\ calls' = [Idle EXCEPT ![p] =
       [pc |-> "verify",
        req |-> [op |-> "getClassSubjectScores", classSubjectId |-> "cs1"]]]
  /\ instants' = <<StoreNow>>
  /\ UNCHANGED <<scores, auditLogs, nextId, res, enrollments, capacity,
                 transactions, auditWrite, users, tokens, academicYears>>

\* a createScore, updateScore or deleteScore request is served
ScoreWrite ==
  /\ \/ \E studentId \in {"s1", "s2"} :
          createScore("teacher", Body(studentId, "math", "QUIZ", 30000, 50000, 1000))
     \/ updateScore("teacher", 1, [score |-> <<40000>>, maxScore |-> <<>>, weight |-> <<>>])
     \/ deleteScore("teacher", 1)
  /\ instants' = Seen([enrollments |-> enrollments, scores |-> scores'])
  /\ UNCHANGED <<enrollments, capacity, transactions, calls, auditWrite,
                 users, tokens, academicYears>>

\* an updateEnrollmentStatus request is served
EnrollmentWrite ==
  /\ \E status \in {"ACTIVE", "WITHDRAWN"} :
       updateEnrollmentStatus("teacher", 1, [status |-> status])
  /\ instants' = Seen([enrollments |-> enrollments', scores |-> scores])
  /\ UNCHANGED <<scores, nextId, capacity, transactions, calls, auditWrite,
                 users, tokens, academicYears>>

NextBook ==
  \/ \E p \in Procs : BookCall(p)
  \/ \E p \in Procs : BookFindClassSubject(p)
  \/ \E p \in Procs : BookFindScores(p)
  \/ \E p \in Procs : BookReturn(p)
  \/ ScoreWrite
  \/ EnrollmentWrite

SpecBook == Init /\ [][NextBook]_vars

(***************************************************************************)
(* What the properties below speak of: the summaries of the last response, *)
(* and the stored rows a summary lists.  A view leaves the tables alone    *)
(* and every other request replaces res, so while res is the response of a *)
(* view, scores is the table the view read.                                *)
(***************************************************************************)
ReportSummaries ==
  IF res.req.op = "getStudentGrades" /\ res.status = 200 THEN res.data ELSE <<>>

BookSummaries ==
  IF res.req.op = "getClassSubjectScores" /\ res.status = 200
    THEN res.data.students ELSE <<>>

StoredScore(id) == CHOOSE s \in scores : s.id = id

\* the stored rows of the entries of a summary, in the order of the entries
RecordsOf(summary) ==
  [i \in 1..Len(summary.scores) |-> StoredScore(summary.scores[i].id)]

Validated(rows) ==
  \A i \in 1..Len(rows) :
    /\ rows[i].score >= 0
    /\ rows[i].maxScore > 0
    /\ rows[i].weight >= 0 /\ rows[i].weight <= 100

(***************************************************************************)
(* The weighted average in exact arithmetic.  With s, m, w the score,      *)
(* maxScore and weight of the rows, the average is                         *)
(*   100 * (SUM s*w/m) / (SUM w)  =  100 * N / D,                          *)
(* N = SUM over i of s_i * w_i * PRODUCT over j # i of m_j,                *)
(* D = (SUM w) * PRODUCT m.                                                *)
(***************************************************************************)
RECURSIVE BQuotLimbs(_, _, _, _)
BQuotLimb(an, bn, i, r0, d) ==
  BQuotLimbs(an, bn, i - 1, BSub(r0, BTimes(bn, d))) \o <<d>>

BQuotNext(an, bn, i, r0) == BQuotLimb(an, bn, i, r0, BDigit(r0, bn))

BQuotLimbs(an, bn, i, r) ==
  IF i = 0 THEN <<>> ELSE BQuotNext(an, bn, i, BTrim(<<an[i]>> \o r))

BQuotShifted(an, bn) == BTrim(BQuotLimbs(an, bn, Len(an), <<>>))

\* floor(a / b) for b # 0
BQuot(a, b) ==
  BQuotShifted(BShl(a, LimbBits * Len(b) - BBits(b)),
               BShl(b, LimbBits * Len(b) - BBits(b)))

RECURSIVE MaxScoreProduct(_, _, _)
MaxScoreProduct(rows, i, skip) ==
  IF i > Len(rows) THEN <<1>>
  ELSE BMul(IF i = skip THEN <<1>> ELSE BFromInt(rows[i].maxScore),
            MaxScoreProduct(rows, i + 1, skip))

RECURSIVE WeightedNumerator(_, _)
WeightedNumerator(rows, i) ==
  IF i > Len(rows) THEN <<>>
  ELSE BAdd(BMul(BFromInt(rows[i].score * rows[i].weight),
                 MaxScoreProduct(rows, 1, i)),
            WeightedNumerator(rows, i + 1))

RECURSIVE WeightSum(_, _)
WeightSum(rows, i) ==
  IF i > Len(rows) THEN 0 ELSE rows[i].weight + WeightSum(rows, i + 1)

\* floor(100 * (100 * N / D) + 1/2) = floor((20000 * N + D) / (2 * D))
HalfUp(bigN, bigD) ==
  BToInt(BQuot(BAdd(BMul(BFromInt(20000), bigN), bigD), BMul(<<2>>, bigD)))

\* the average rounded half-up to two decimals, in hundredths
ExactHundredths(rows) ==
  HalfUp(WeightedNumerator(rows, 1),
         BMul(BFromInt(WeightSum(rows, 1)), MaxScoreProduct(rows, 1, 0)))

ExactFinalGrade(rows) ==
  IF WeightSum(rows, 1) = 0 THEN FZero ELSE FromDec(ExactHundredths(rows))

(***************************************************************************)
(* The claims.                                                             *)
(***************************************************************************)

\* C1: in both views the finalGrade of a group of validated records is the
\* weighted average of the records' percentages, SUM (score / maxScore * 100
\* * weight) / SUM weight, rounded half-up to two decimals, and 0 when the
\* weights sum to 0.
C1_FinalGradeIsWeightedAverage ==
  /\ \A i \in 1..Len(ReportSummaries) :
       Validated(RecordsOf(ReportSummaries[i])) =>
         ReportSummaries[i].finalGrade = ExactFinalGrade(RecordsOf(ReportSummaries[i]))
  /\ \A i \in 1..Len(BookSummaries) :
       Validated(RecordsOf(BookSummaries[i])) =>
         BookSummaries[i].finalGrade = ExactFinalGrade(RecordsOf(BookSummaries[i]))

\* C1, its examples: the records {80/100, weight 0.3} and {70/100, weight
\* 0.7} give finalGrade 73.00, and the record {45/50, weight 1} alone gives
\* 90.00, in either view.
IsRecord(row, score, maxScore, weight) ==
  row.score = score /\ row.maxScore = maxScore /\ row.weight = weight

IsExampleP5(rows) == Len(rows) = 1 /\ IsRecord(rows[1], 4500, 5000, 100)

IsExampleP6(rows) ==
  /\ Len(rows) = 2
  /\ \E i, j \in 1..2 : /\ IsRecord(rows[i], 8000, 10000, 30)
                        /\ IsRecord(rows[j], 7000, 10000, 70)

C1_Examples ==
  /\ \A i \in 1..Len(ReportSummaries) :
       /\ IsExampleP5(RecordsOf(ReportSummaries[i])) =>
            ReportSummaries[i].finalGrade = FromInt(90)
       /\ IsExampleP6(RecordsOf(ReportSummaries[i])) =>
            ReportSummaries[i].finalGrade = FromInt(73)
  /\ \A i \in 1..Len(BookSummaries) :
       /\ IsExampleP5(RecordsOf(BookSummaries[i])) =>
            BookSummaries[i].finalGrade = FromInt(90)
       /\ IsExampleP6(RecordsOf(BookSummaries[i])) =>
            BookSummaries[i].finalGrade = FromInt(73)

\* a < b; every comparison with NaN is false
FLt(a, b) == FGt(b, a)

\* the letter of a final grade is in the band of the grade, and in no other
InBand(letterGrade, finalGrade) ==
  /\ letterGrade = "A" <=> FGe(finalGrade, FromInt(90))
  /\ letterGrade = "B" <=> (FGe(finalGrade, FromInt(80)) /\ FLt(finalGrade, FromInt(90)))
  /\ letterGrade = "C" <=> (FGe(finalGrade, FromInt(70)) /\ FLt(finalGrade, FromInt(80)))
  /\ letterGrade = "D" <=> (FGe(finalGrade, FromInt(60)) /\ FLt(finalGrade, FromInt(70)))
  /\ letterGrade = "F" <=> FLt(finalGrade, FromInt(60))

\* C2: in both views letterGrade is A exactly when finalGrade >= 90, B
\* exactly when 80 <= finalGrade < 90, C exactly when 70 <= finalGrade < 80,
\* D exactly when 60 <= finalGrade < 70 and F exactly when finalGrade < 60.
C2_LetterGradeBands ==
  /\ \A i \in 1..Len(ReportSummaries) :
       InBand(ReportSummaries[i].letterGrade, ReportSummaries[i].finalGrade)
  /\ \A i \in 1..Len(BookSummaries) :
       InBand(BookSummaries[i].letterGrade, BookSummaries[i].finalGrade)

\* C2, for the final grades that are numbers: the bands hold of every
\* summary whose finalGrade is not NaN.
C2_BandsOfNumbers ==
  /\ \A i \in 1..Len(ReportSummaries) :
       ReportSummaries[i].finalGrade # NaN =>
         InBand(ReportSummaries[i].letterGrade, ReportSummaries[i].finalGrade)
  /\ \A i \in 1..Len(BookSummaries) :
       BookSummaries[i].finalGrade # NaN =>
         InBand(BookSummaries[i].letterGrade, BookSummaries[i].finalGrade)

\* the request of the last response submitted a record with maxScore 0
SubmitsZeroMaxScore ==
  \/ /\ res.req.op \in {"createScore", "bulkCreateScores"}
     /\ res.req.body.maxScore = 0
  \/ /\ res.req.op = "updateScore"
     /\ res.req.body.maxScore = <<0>>

\* C3: a record whose maxScore is 0 is answered with a validation error
\* when it is submitted, and no grade view succeeds on a group that holds a
\* record whose maxScore is 0: the division by zero is never performed.
C3_ZeroMaxScoreIsValidationError ==
  /\ SubmitsZeroMaxScore => res.code = "VALIDATION_ERROR"
  /\ \A i \in 1..Len(ReportSummaries) :
       \A j \in 1..Len(ReportSummaries[i].scores) :
         ReportSummaries[i].scores[j].maxScore # 0
  /\ \A i \in 1..Len(BookSummaries) :
       \A j \in 1..Len(BookSummaries[i].scores) :
         BookSummaries[i].scores[j].maxScore # 0

\* C4: every stored score record has score >= 0, maxScore > 0 and
\* 0 <= weight <= 1.
C4_StoredRecordsWithinBounds ==
  \A s \in scores :
    /\ s.score >= 0
    /\ s.maxScore > 0
    /\ s.weight >= 0 /\ s.weight <= 100

\* the ids a sequence of summaries lists, and all the records it lists
ListedIds(summaries) ==
  UNION { {summaries[i].scores[j].id : j \in 1..Len(summaries[i].scores)} :
          i \in 1..Len(summaries) }

RECURSIVE ListedRecords(_, _)
ListedRecords(summaries, i) ==
  IF i > Len(summaries) THEN <<>>
  ELSE RecordsOf(summaries[i]) \o ListedRecords(summaries, i + 1)

\* the rows of the Score table the report card of the last request is about
RequestedStudentRows ==
  {s \in scores :
     /\ s.studentId = res.req.studentId
     /\ res.req.semesterId # <<>> =>
          semesterOf[s.classSubjectId] = res.req.semesterId[1]}

\* the students with an ACTIVE enrollment in the class of the class subject
\* of the last request, and the rows of the Score table its gradebook is about
RequestedStudents ==
  {n.studentId : n \in {e \in Enrollments :
                          /\ e.classId = classOf[res.req.classSubjectId]
                          /\ e.status = "ACTIVE"}}

RequestedClassRows ==
  {s \in scores :
     /\ s.classSubjectId = res.req.classSubjectId
     /\ s.studentId \in RequestedStudents}

\* C5: a grade summary is never stored: the response of getStudentGrades and
\* of getClassSubjectScores lists exactly the score records that exist when
\* it is made, each once, and is the summary computed from them, so every
\* creation, update and deletion is reflected by the next read.
C5_ViewReflectsCurrentRecords ==
  /\ (res.req.op = "getStudentGrades" /\ res.status = 200) =>
       /\ ListedIds(res.data) = {s.id : s \in RequestedStudentRows}
       /\ Len(ListedRecords(res.data, 1)) = Cardinality(RequestedStudentRows)
       /\ res.data = StudentGrades(ListedRecords(res.data, 1))
  /\ (res.req.op = "getClassSubjectScores" /\ res.status = 200) =>
       /\ ListedIds(res.data.students) = {s.id : s \in RequestedClassRows}
       /\ Len(ListedRecords(res.data.students, 1)) = Cardinality(RequestedClassRows)
       /\ {res.data.students[i].student : i \in 1..Len(res.data.students)}
            = RequestedStudents
       /\ Len(res.data.students) = Cardinality(RequestedStudents)
       /\ res.data.students =
            ClassSubjectScores(
              [i \in 1..Len(res.data.students) |->
                 [studentId |-> res.data.students[i].student]],
              ListedRecords(res.data.students, 1))

\* a report card with grades, read right after a score was updated or deleted
C5_ReadAfterMutation ==
  /\ res.req.op = "getStudentGrades" /\ res.status = 200
  /\ res.data # <<>>
  /\ auditLogs # <<>>
  /\ auditLogs[Len(auditLogs)].action \in {"UPDATE", "DELETE"}

\* two sequences of summaries give every group the same finalGrade,
\* letterGrade and per-record values
SameEntries(a, b) ==
  {a[k] : k \in 1..Len(a)} = {b[k] : k \in 1..Len(b)}

SameReport(a, b) ==
  /\ Len(a) = Len(b)
  /\ \A i \in 1..Len(a) : \E j \in 1..Len(b) :
       /\ a[i].subject = b[j].subject
       /\ a[i].finalGrade = b[j].finalGrade
       /\ a[i].letterGrade = b[j].letterGrade
       /\ SameEntries(a[i].scores, b[j].scores)

SameBook(a, b) ==
  /\ Len(a) = Len(b)
  /\ \A i \in 1..Len(a) : \E j \in 1..Len(b) :
       /\ a[i].student = b[j].student
       /\ a[i].finalGrade = b[j].finalGrade
       /\ a[i].letterGrade = b[j].letterGrade
       /\ SameEntries(a[i].scores, b[j].scores)

\* C6: the grade computation is deterministic: two invocations of
\* getStudentGrades, or of getClassSubjectScores, with the same arguments on
\* the same score records return the same finalGrade, letterGrade and
\* per-record values for every group.
C6_SameRecordsSameGrades ==
  [][ (/\ res.status = 200 /\ res'.status = 200
       /\ res.req.op \in {"getStudentGrades", "getClassSubjectScores"}
       /\ res'.req = res.req
       /\ scores' = scores)
      => IF res.req.op = "getStudentGrades"
           THEN SameReport(res.data, res'.data)
           ELSE SameBook(res.data.students, res'.data.students) ]_vars

\* the records of a group that carry weight
HasWeight(row) == row.weight # 0

\* the grade either view gives a group of records of one student in one
\* subject; the grade of the empty group is 0 / F
GradeOf(summary) ==
  [finalGrade |-> summary.finalGrade, letterGrade |-> summary.letterGrade]

ReportGradeOf(rows) ==
  IF rows = <<>> THEN [finalGrade |-> FZero, letterGrade |-> "F"]
  ELSE GradeOf(StudentGrades(rows)[1])

BookGradeOf(rows) ==
  IF rows = <<>> THEN [finalGrade |-> FZero, letterGrade |-> "F"]
  ELSE GradeOf(ClassSubjectScores(<<[studentId |-> rows[1].studentId]>>, rows)[1])

\* C7: zero-weight neutrality: in both views the finalGrade and letterGrade
\* of a group are those of the group without its records of weight 0.
C7_ZeroWeightNeutral ==
  /\ \A i \in 1..Len(ReportSummaries) :
       GradeOf(ReportSummaries[i])
         = ReportGradeOf(SelectSeq(RecordsOf(ReportSummaries[i]), HasWeight))
  /\ \A i \in 1..Len(BookSummaries) :
       GradeOf(BookSummaries[i])
         = BookGradeOf(SelectSeq(RecordsOf(BookSummaries[i]), HasWeight))

\* a summary of the empty group
IsEmptySummary(summary) ==
  /\ summary.finalGrade = FZero
  /\ summary.letterGrade = "F"
  /\ summary.scores = <<>>

\* the gradebook gives every student with an ACTIVE enrollment and no score
\* in the class subject a summary of the empty group
BookListsEmptyGroups ==
  (res.req.op = "getClassSubjectScores" /\ res.status = 200) =>
    \A st \in RequestedStudents :
      (\A s \in RequestedClassRows : s.studentId # st) =>
        \E i \in 1..Len(BookSummaries) :
          /\ BookSummaries[i].student = st
          /\ IsEmptySummary(BookSummaries[i])

\* the student of the last request has an ACTIVE enrollment
RequestedStudentEnrolled ==
  \E e \in Enrollments : e.studentId = res.req.studentId /\ e.status = "ACTIVE"

\* C8, as stated: an enrolled student without a recorded score gets a
\* summary with finalGrade 0, letterGrade F and no records, in the gradebook
\* and in the report card, without an error.
C8_EmptyGroupInBothViews ==
  /\ BookListsEmptyGroups
  /\ (/\ res.req.op = "getStudentGrades"
      /\ RequestedStudentEnrolled
      /\ RequestedStudentRows = {}) =>
       /\ res.status = 200
       /\ \E i \in 1..Len(ReportSummaries) : IsEmptySummary(ReportSummaries[i])

\* C8, amended: the gradebook gives every student with an ACTIVE enrollment
\* in the class and no score in the class subject a summary with finalGrade
\* 0, letterGrade F and no records; the report card of a student without a
\* score answers, without an error, with an empty list of summaries.
C8_EmptyGroup ==
  /\ BookListsEmptyGroups
  /\ (/\ res.req.op = "getStudentGrades"
      /\ res.req.studentId \in Students
      /\ RequestedStudentRows = {}) =>
       /\ res.status = 200
       /\ res.data = <<>>

\* a gradebook with a student without scores
C8_EmptyGroupListed ==
  \E i \in 1..Len(BookSummaries) :
    /\ BookSummaries[i].scores = <<>>
    /\ \E j \in 1..Len(BookSummaries) : BookSummaries[j].scores # <<>>

\* the ids of the entries of a summary
EntryIds(summary) == {summary.scores[j].id : j \in 1..Len(summary.scores)}

\* a non-empty set of rows whose weights are all 0
AllZeroWeights(rows) == rows # {} /\ \A s \in rows : s.weight = 0

\* a summary with finalGrade 0 and letterGrade F that lists just these rows
IsZeroSummaryOf(summary, rows) ==
  /\ summary.finalGrade = FZero
  /\ summary.letterGrade = "F"
  /\ EntryIds(summary) = {s.id : s \in rows}
  /\ Len(summary.scores) = Cardinality(rows)

\* C9: a non-empty group whose records all have weight 0 gets finalGrade 0
\* and letterGrade F, without an error and whatever the scores, and its
\* records are listed in the summary.
C9_AllZeroWeights ==
  /\ (res.req.op = "getStudentGrades" /\ res.req.studentId \in Students) =>
       \A sb \in Subjects :
         AllZeroWeights({s \in RequestedStudentRows : s.subjectId = sb}) =>
           /\ res.status = 200
           /\ \E i \in 1..Len(ReportSummaries) :
                /\ ReportSummaries[i].subject = sb
                /\ IsZeroSummaryOf(ReportSummaries[i],
                                   {s \in RequestedStudentRows : s.subjectId = sb})
  /\ (res.req.op = "getClassSubjectScores"
        /\ res.req.classSubjectId \in ClassSubjects) =>
       \A st \in RequestedStudents :
         AllZeroWeights({s \in RequestedClassRows : s.studentId = st}) =>
           /\ res.status = 200
           /\ \E i \in 1..Len(BookSummaries) :
                /\ BookSummaries[i].student = st
                /\ IsZeroSummaryOf(BookSummaries[i],
                                   {s \in RequestedClassRows : s.studentId = st})

\* a report card with a group of two records of weight 0
C9_AllZeroGroupRead ==
  \E i \in 1..Len(ReportSummaries) :
    /\ Len(ReportSummaries[i].scores) = 2
    /\ \A j \in 1..2 : ReportSummaries[i].scores[j].weight = 0

\* an entry carries the id, type, score, maxScore and weight of its record,
\* the record's percentage and its weighted contribution
HasDetail(entry, row) ==
  /\ entry.id = row.id
  /\ entry.scoreType = row.scoreType
  /\ entry.score = row.score
  /\ entry.maxScore = row.maxScore
  /\ entry.weight = row.weight
  /\ entry.percentage = Round2(Percentage(row))
  /\ "weightedScore" \in DOMAIN entry
  /\ entry.weightedScore = Round2(FMul(Percentage(row), FromDec(row.weight)))

\* C10: in both views the record list of a summary has one entry per score
\* record of the group, and every entry carries the record's id, score,
\* maxScore, weight and type with its percentage and its weighted
\* contribution.
C10_PerRecordDetail ==
  /\ \A i \in 1..Len(ReportSummaries) :
       /\ EntryIds(ReportSummaries[i])
            = {s.id : s \in {t \in RequestedStudentRows :
                               t.subjectId = ReportSummaries[i].subject}}
       /\ Len(ReportSummaries[i].scores) = Cardinality(EntryIds(ReportSummaries[i]))
       /\ \A j \in 1..Len(ReportSummaries[i].scores) :
            HasDetail(ReportSummaries[i].scores[j],
                      StoredScore(ReportSummaries[i].scores[j].id))
  /\ \A i \in 1..Len(BookSummaries) :
       /\ EntryIds(BookSummaries[i])
            = {s.id : s \in {t \in RequestedClassRows :
                               t.studentId = BookSummaries[i].student}}
       /\ Len(BookSummaries[i].scores) = Cardinality(EntryIds(BookSummaries[i]))
       /\ \A j \in 1..Len(BookSummaries[i].scores) :
            HasDetail(BookSummaries[i].scores[j],
                      StoredScore(BookSummaries[i].scores[j].id))

\* C10, for the report card alone: its entries carry all of the detail.
C10_ReportDetail ==
  \A i \in 1..Len(ReportSummaries) :
    \A j \in 1..Len(ReportSummaries[i].scores) :
      HasDetail(ReportSummaries[i].scores[j],
                StoredScore(ReportSummaries[i].scores[j].id))

\* the places <<i, j>> at which a sequence of summaries lists a record
Places(summaries, id) ==
  {ij \in UNION {{<<i, j>> : j \in 1..Len(summaries[i].scores)} :
                   i \in 1..Len(summaries)} :
     summaries[ij[1]].scores[ij[2]].id = id}

\* the sum of the weights of the first n entries, added in their order
RECURSIVE SumOfWeights(_, _)
SumOfWeights(entries, n) ==
  IF n = 0 THEN FZero
  ELSE FAdd(SumOfWeights(entries, n - 1), FromDec(entries[n].weight))

\* the totals of every group are those of the records the group lists, each
\* added once
TotalsOfListed ==
  /\ \A i \in 1..Len(ReportSummaries) :
       /\ ReportSummaries[i].totalWeight
            = SumOfWeights(ReportSummaries[i].scores, Len(ReportSummaries[i].scores))
       /\ GradeOf(ReportSummaries[i]) = ReportGradeOf(RecordsOf(ReportSummaries[i]))
  /\ \A i \in 1..Len(BookSummaries) :
       GradeOf(BookSummaries[i]) = BookGradeOf(RecordsOf(BookSummaries[i]))

\* every record of the report card's query is listed once, in the group of
\* its subject
ReportPartition ==
  res.req.op = "getStudentGrades" /\ res.status = 200 =>
    \A s \in RequestedStudentRows :
      /\ Cardinality(Places(res.data, s.id)) = 1
      /\ \A ij \in Places(res.data, s.id) : res.data[ij[1]].subject = s.subjectId

\* this record is listed once by the gradebook, in the group of its student
ListedOnceByStudent(s) ==
  /\ Cardinality(Places(BookSummaries, s.id)) = 1
  /\ \A ij \in Places(BookSummaries, s.id) :
       BookSummaries[ij[1]].student = s.studentId

\* C11, as stated: every score record the query of a view returns is in the
\* record list of exactly one group, the group of its subject in the report
\* card and of its student in the gradebook, and is added to the totals of
\* that group once: none is dropped and none is counted twice.
C11_Partition ==
  /\ ReportPartition
  /\ (res.req.op = "getClassSubjectScores" /\ res.status = 200) =>
       \A s \in ClassSubjectRows(res.req.classSubjectId) : ListedOnceByStudent(s)
  /\ TotalsOfListed

\* C11, amended: as stated for the report card; the gradebook leaves out the
\* records of students without an ACTIVE enrollment in the class, and every
\* other record its query returns is in the list of the group of its
\* student, once, and is added to that group's totals once.
C11_PartitionOfEnrolled ==
  /\ ReportPartition
  /\ (res.req.op = "getClassSubjectScores" /\ res.status = 200) =>
       \A s \in ClassSubjectRows(res.req.classSubjectId) :
         IF s.studentId \in RequestedStudents
           THEN ListedOnceByStudent(s)
           ELSE Places(BookSummaries, s.id) = {}
  /\ TotalsOfListed

\* a gradebook that lists a record, read while the table holds a record of a
\* student who has withdrawn
C11_WithdrawnLeftOut ==
  /\ res.req.op = "getClassSubjectScores" /\ res.status = 200
  /\ \E s \in scores : s.studentId \notin RequestedStudents
  /\ \E i \in 1..Len(BookSummaries) : BookSummaries[i].scores # <<>>

\* the sum of the contributions of the first n records, each the unrounded
\* percentage times the weight, added in their order
RECURSIVE SumOfContributions(_, _)
SumOfContributions(rows, n) ==
  IF n = 0 THEN FZero
  ELSE FAdd(SumOfContributions(rows, n - 1),
            FMul(Percentage(rows[n]), FromDec(rows[n].weight)))

\* ... and the same sum made from the percentages the entries display
RECURSIVE SumOfDisplayed(_, _)
SumOfDisplayed(entries, n) ==
  IF n = 0 THEN FZero
  ELSE FAdd(SumOfDisplayed(entries, n - 1),
            FMul(entries[n].percentage, FromDec(entries[n].weight)))

\* the one rounding of the quotient of two totals
RoundedQuotient(total, totalWeight) ==
  IF FGt(totalWeight, FZero) THEN Round2(FDiv(total, totalWeight)) ELSE FZero

\* the finalGrade of a summary is the one rounding of the quotient of the
\* unrounded totals of its records, and its entries display the rounded
\* percentages
RoundedAtTheEnd(summary) ==
  /\ summary.finalGrade
       = RoundedQuotient(SumOfContributions(RecordsOf(summary), Len(summary.scores)),
                         SumOfWeights(summary.scores, Len(summary.scores)))
  /\ \A j \in 1..Len(summary.scores) :
       summary.scores[j].percentage
         = Round2(Percentage(StoredScore(summary.scores[j].id)))

\* C12: rounding happens only at the end: in both views finalGrade is the
\* single rounding of totalWeightedScore / totalWeight, the totals being
\* sums of the unrounded percentage times the weight and of the weights; the
\* rounding to two decimals of the per-record values is for display only.
C12_RoundingAtTheEnd ==
  /\ \A i \in 1..Len(ReportSummaries) : RoundedAtTheEnd(ReportSummaries[i])
  /\ \A i \in 1..Len(BookSummaries) : RoundedAtTheEnd(BookSummaries[i])

\* a summary whose finalGrade is not the one its displayed percentages give
C12_DisplayedGiveAnother ==
  \E i \in 1..Len(ReportSummaries) :
    /\ ReportSummaries[i].finalGrade # NaN
    /\ ReportSummaries[i].finalGrade
         # RoundedQuotient(SumOfDisplayed(ReportSummaries[i].scores,
                                          Len(ReportSummaries[i].scores)),
                           ReportSummaries[i].totalWeight)

\* the response a view gives when it runs alone on these rows
AloneOn(call) ==
  IF call.req.op = "getStudentGrades"
    THEN successResponse(call.req, StudentGrades(call.rows), 200)
    ELSE successResponse(call.req,
           [classSubject |-> call.req.classSubjectId,
            students     |-> ClassSubjectScores(call.enrolled, call.rows)], 200)

\* C13: concurrent invocations are independent: under every interleaving of
\* the steps of the requests in flight, every getStudentGrades and
\* getClassSubjectScores returns what it returns when it runs alone on the
\* rows it read; no request sees the rows or the totals of another.
C13_IndependentCalls ==
  \A p \in Procs :
    (calls[p].pc = "done" /\ calls[p].res.status = 200) =>
      calls[p].res = AloneOn(calls[p])

\* two report cards of one student, one returned and one still holding the
\* rows it read before a score of the student was deleted
C13_ReadsApart ==
  \E p, q \in Procs :
    /\ calls[p].pc = "done" /\ calls[q].pc = "group"
    /\ calls[p].req = calls[q].req
    /\ calls[p].req.op = "getStudentGrades"
    /\ calls[p].res.status = 200
    /\ calls[p].rows = <<>> /\ calls[q].rows # <<>>

\* C14: class capacity is never exceeded: in every reachable state the
\* number of ACTIVE enrollments of a class in an academic year is at most
\* the capacity of the class.
C14_CapacityNeverExceeded ==
  \A c \in Classes, y \in AcademicYears :
    Cardinality(ActiveIn(c, y)) <= capacity[c]

\* an audit entry of the creation of an enrollment
IsEnrollmentCreated(entry) ==
  entry.entityType = "Enrollment" /\ entry.action = "CREATE"

Answers(ops) == res'.req.op \in ops /\ auditWrite' = auditWrite

\* the rows of a bulk payload are the rows the step added to the store
PayloadPersisted(body) ==
  /\ scores \subseteq scores'
  /\ Cardinality(scores' \ scores) = Len(body.scores)
  /\ \A i \in 1..Len(body.scores) :
       \E r \in scores' \ scores :
         /\ r.studentId = body.scores[i].studentId
         /\ r.score = Decimal2(body.scores[i].score)
         /\ r.maxScore = Decimal2(body.maxScore)
         /\ r.weight = Decimal2(body.weight)
         /\ r.classSubjectId = body.classSubjectId
         /\ r.subjectId = body.subjectId
         /\ r.scoreType = body.scoreType

\* C16: bulkCreateScores is all-or-nothing: a call that succeeds has
\* persisted every score of its payload and exactly one audit entry of the
\* bulk creation; a call that fails, by an insert or by the audit write, has
\* persisted no score and no audit entry, and the score store is as it was.
C16_BulkAllOrNothing ==
  [][Answers({"bulkCreateScores"}) =>
       IF res'.status = 201
         THEN /\ PayloadPersisted(res'.req.body)
              /\ Len(auditLogs') = Len(auditLogs) + 1
              /\ SubSeq(auditLogs', 1, Len(auditLogs)) = auditLogs
              /\ auditLogs'[Len(auditLogs')].action = "CREATE"
              /\ auditLogs'[Len(auditLogs')].entityType = "Score"
         ELSE /\ scores' = scores
              /\ auditLogs' = auditLogs]_vars

\* a bulk creation whose inserts were all accepted failed by its audit write
C16_BulkFailedByAudit ==
  /\ res.req.op = "bulkCreateScores"
  /\ res.status = 400
  /\ res.data = AuditError
  /\ auditWrite = "error"

\* C17: a failed single-score operation leaves the store unchanged: whenever
\* createScore, updateScore or deleteScore reports an error, a failure of
\* the audit write that follows the mutation included, the stored score
\* records and the audit log are what they were before the call.
C17_FailedLeavesStore ==
  [][(Answers({"createScore", "updateScore", "deleteScore"}) /\ res'.status >= 400)
       => (scores' = scores /\ auditLogs' = auditLogs)]_vars

\* the calls of generateInvoices that were answered
InvoiceCalls ==
  {p \in Procs : calls[p].pc \in {"orphans", "done"}
                   /\ calls[p].req.op = "generateInvoices"}

\* the students the request of a call selects: the explicit studentIds when
\* there are some, else the students of the ACTIVE enrollments of the class
\* in the year, else of the grade, else of the year
SelectedStudents(body) ==
  IF body.studentIds # <<>>
    THEN {body.studentIds[i] : i \in 1..Len(body.studentIds)}
  ELSE {e.studentId :
          e \in {n \in enrollments :
                   /\ n.status = "ACTIVE" /\ n.academicYearId = body.academicYearId
                   /\ body.classId # <<>> => n.classId = body.classId[1]
                   /\ (body.classId = <<>> /\ body.gradeId # <<>>) =>
                        gradeOf[n.classId] = body.gradeId[1]}}

\* the transaction of the invoice the call created for place i of its list
InvoiceAt(p, i) == CHOOSE t \in transactions : t.id = calls[p].invoices[i]

C19_InvoicesAllOrNothing ==
  \A p \in InvoiceCalls :
    calls[p].res.status >= 400 => DOMAIN calls[p].invoices = {}

\* C20: one call of generateInvoices never creates two invoices for the same
\* student, in every selection mode and every enrollment state.
C20_OneInvoicePerStudent ==
  \A p \in Procs :
    (calls[p].pc \notin {"idle"} /\ calls[p].req.op = "generateInvoices") =>
      \A i, j \in DOMAIN calls[p].invoices :
        i # j => calls[p].studentIds[i] # calls[p].studentIds[j]

\* the action of the audit entry each mutating route of the grading router
\* writes
AuditActionOf(route) ==
  IF route \in {"createScore", "bulkCreateScores"} THEN "CREATE"
  ELSE IF route = "updateScore" THEN "UPDATE" ELSE "DELETE"

\* C22: the audit side effect: every createScore, updateScore, deleteScore
\* and bulkCreateScores that returns success has written exactly one
\* audit-log entry, whose userId is the acting user, whose action is CREATE,
\* UPDATE or DELETE according to the operation and whose entityType is
\* Score; listScores, getScoreById, getStudentGrades and
\* getClassSubjectScores write none.
C22_AuditSideEffect ==
  [][/\ (/\ calls'[1].route \in {"createScore", "bulkCreateScores",
                                 "updateScore", "deleteScore"}
         /\ res'.code = "OK") =>
           /\ Len(auditLogs') = Len(auditLogs) + 1
           /\ SubSeq(auditLogs', 1, Len(auditLogs)) = auditLogs
           /\ auditLogs'[Len(auditLogs')].userId = calls'[1].header[2].userId
           /\ auditLogs'[Len(auditLogs')].action = AuditActionOf(calls'[1].route)
           /\ auditLogs'[Len(auditLogs')].entityType = "Score"
     /\ calls'[1].route \in {"listScores", "getScoreById", "getStudentGrades",
                             "getClassSubjectScores"} =>
           auditLogs' = auditLogs]_vars

\* the admin has deleted a score the teacher had created: the audit log
\* names each of them
C22_TwoActorsAudited ==
  /\ calls[1].pc = "done"
  /\ calls[1].route = "deleteScore"
  /\ res.code = "OK"
  /\ auditLogs[Len(auditLogs)].userId = "admin"
  /\ auditLogs[Len(auditLogs)].action = "DELETE"
  /\ auditLogs[Len(auditLogs) - 1].userId = "teacher"
  /\ auditLogs[Len(auditLogs) - 1].action = "CREATE"

\* the last request to the grading router carried a valid Bearer access token
CarriesToken ==
  /\ Len(calls'[1].header) = 2
  /\ calls'[1].header[1] = "Bearer"
  /\ calls'[1].header[2] \in {[userId |-> u, role |-> roleOf[u]] : u \in Accounts}

\* the role of that token is in the list of the route
RoleListed ==
  \/ calls'[1].header[2].role \in {"ADMIN", "TEACHER"}
  \/ /\ calls'[1].route = "getStudentGrades"
     /\ calls'[1].header[2].role \in {"STUDENT", "PARENT"}

\* C24: route protection: a grading handler is invoked only for a request
\* that carries a valid Bearer access token whose role is in the list of the
\* route (ADMIN or TEACHER; for the report card also STUDENT and PARENT);
\* authentication comes before authorization: a missing or invalid token is
\* answered 401, whatever its role, and a role outside the list 403, and in
\* both cases no handler is invoked and the store is unchanged.
C24_RouteProtection ==
  [][/\ ~CarriesToken =>
          /\ res'.status = 401 /\ res'.code = "AUTH_ERROR"
          /\ scores' = scores /\ auditLogs' = auditLogs /\ nextId' = nextId
     /\ (CarriesToken /\ ~RoleListed) =>
          /\ res'.status = 403 /\ res'.code = "FORBIDDEN"
          /\ scores' = scores /\ auditLogs' = auditLogs /\ nextId' = nextId
     /\ res'.code \notin {"AUTH_ERROR", "FORBIDDEN"} =>
          (CarriesToken /\ RoleListed)]_vars

\* with scores in the store, the pupil asked to delete one and was answered
\* 403
C24_PupilForbidden ==
  /\ calls[1].pc = "done"
  /\ calls[1].route = "deleteScore"
  /\ calls[1].header = <<"Bearer", AccessToken("pupil1")>>
  /\ res.status = 403
  /\ scores # {}

\* C25: a caller with role STUDENT or PARENT obtains through the report-card
\* route only the grades of the student record that belongs to the caller
\* or, for a PARENT, to a linked child: every score a report card answered
\* to such a caller lists is a score of one of the caller's own students (so
\* that the scores of other students make no difference to the response).
C25_OwnGradesOnly ==
  (/\ calls[1].pc = "done"
   /\ calls[1].route = "getStudentGrades"
   /\ res.code = "OK"
   /\ calls[1].header[2].role \in {"STUDENT", "PARENT"}) =>
     \A id \in ListedIds(res.data) :
       \E s \in scores :
         s.id = id /\ s.studentId \in studentsOf[calls[1].header[2].userId]

\* C26: deactivation is effective: once the status of a user is INACTIVE or
\* SUSPENDED, no later request of that user is accepted: a login fails with
\* 'Account is not active' and gives no token, and no handler of an
\* authenticated route is invoked on behalf of that user, whenever the
\* access token was issued.
C26_DeactivationEffective ==
  [][/\ (res'.req.op = "login" /\ res'.req.username \in Accounts
           /\ users[res'.req.username] # "ACTIVE") =>
          (res'.data = "Account is not active" /\ tokens' = tokens)
     /\ (res'.req.op \in GradingRoutes
           /\ res'.code \notin {"AUTH_ERROR", "FORBIDDEN"}) =>
          users[calls'[1].header[2].userId] = "ACTIVE"
     /\ (res'.req.op \in {"deleteUser", "updateStatus"} /\ res'.code = "OK") =>
          users[auditLogs'[Len(auditLogs')].userId] = "ACTIVE"]_vars

\* C23: at most one academic year is current: in every reachable state,
\* after any sequence and any interleaving of createAcademicYear and
\* updateAcademicYear requests, at most one academic year has isCurrent =
\* true, and after a successful request with isCurrent = true the year it
\* created or updated is the only current one.
C23_OneCurrentYear ==
  /\ Cardinality({y \in academicYears : y.isCurrent}) <= 1
  /\ \A p \in Procs :
       (/\ calls[p].pc = "done"
        /\ calls[p].req.op \in {"createAcademicYear", "updateAcademicYear"}
        /\ calls[p].res.code = "OK"
        /\ calls[p].req.isCurrent = <<TRUE>>
        /\ \A q \in Procs \ {p} : calls[q].pc = "idle") =>
          {y.id : y \in {z \in academicYears : z.isCurrent}} = {calls[p].req.id}

\* C21: receipt numbers never collide: after any sequence and any
\* interleaving of createTransaction, updateTransaction and
\* deleteTransaction requests, a createTransaction with status COMPLETED and
\* no receipt number carries a generated receipt number that differs from
\* the receipt number of every existing transaction, and does not fail on
\* the unique receipt-number constraint.
C21_ReceiptNumbersNeverCollide ==
  \A p \in Procs :
    (/\ calls[p].pc \in {"write", "done"}
     /\ calls[p].req.op = "createTransaction"
     /\ calls[p].req.input.status = "COMPLETED"
     /\ calls[p].req.input.receiptNumber = <<>>) =>
       IF calls[p].pc = "write"
         THEN /\ calls[p].receiptNumber # <<>>
              /\ \A t \in transactions : t.receiptNumber # calls[p].receiptNumber
         ELSE calls[p].res.code = "OK"

\* C27: the gradebook is computed on a consistent snapshot: when
\* updateEnrollmentStatus, createScore, updateScore or deleteScore requests
\* run concurrently with getClassSubjectScores, the returned student list
\* with its records and grades is the gradebook of the Enrollment and Score
\* tables as they were at one single instant between the call and its
\* return.
C27_ConsistentSnapshot ==
  \A p \in Procs :
    (/\ calls[p].pc = "done"
     /\ calls[p].req.op = "getClassSubjectScores"
     /\ calls[p].res.status = 200) =>
       \E i \in 1..Len(instants) :
         \E enrolled \in Perms({n \in instants[i].enrollments :
                                  /\ n.classId = classOf[calls[p].req.classSubjectId]
                                  /\ n.status = "ACTIVE"}),
            rows \in ScoreOrder({r \in instants[i].scores :
                                   r.classSubjectId = calls[p].req.classSubjectId}) :
           calls[p].res.data.students = ClassSubjectScores(enrolled, rows)
====
